---- MODULE Spec2Model ----
(***************************************************************************)
(* A model of salttesting/jenkins.py: the bounded poll loops, the          *)
(* persisted state file (.state.json) and the option set they share.       *)
(*                                                                         *)
(* Each part of the program has its own specification over the same        *)
(* variables:                                                              *)
(*   SpecRepeat  bootstrap_parallels_minion._repeat                        *)
(*   SpecState   save_state / load_state across invocations of main        *)
(*   SpecWin     check_win_minion_connected                                *)
(*   SpecIp      get_minion_ip_address                                     *)
(*   SpecRun     run_command                                               *)
(*   SpecParallels  the step loop of bootstrap_parallels_minion            *)
(*   SpecMain    the stages of main across invocations                     *)
(***************************************************************************)
EXTENDS Integers, Sequences, FiniteSets, TLC

VARIABLES
    \* ---- _repeat -------------------------------------------------------
    rpc,        \* position in _repeat: "idle", "loop", "done", "raised"
    key,        \* parameter key
    tries,      \* parameter tries
    sleep,      \* parameter sleep
    i,          \* loop variable of `for i in range(tries)`
    std_out,    \* stdout of the last probe
    runs,       \* number of run_command calls made by this call
    sleeps,     \* number of time.sleep calls made by this call
    slept,      \* seconds slept by this call
    hits,       \* for each probe run so far, whether key was in its stdout
    ret,        \* return value of _repeat
    \* ---- option set and state file -------------------------------------
    options,    \* the argparse namespace: option name -> Python value
    stateFile,  \* <workspace>/.state.json
    lastOp,     \* the operation on options / stateFile that ran last
    mpc,        \* position in main: "parsed" (before load_state), "running"
    opKept,     \* names whose old value the last save_state / load_state kept
                \* although the other side held a different one
    opReplaced, \* names whose old value the last save_state / load_state
                \* replaced by a different one
    opRead,     \* what the last save_state / load_state found at the path of
                \* the state file: "absent", "garbage", "json"; else "none"
    \* ---- check_win_minion_connected -----------------------------------
    wpc,        \* position: "idle", "pingA", "pingB", "grains", "returned",
                \* "exited" (sys.exit), "raised" (uncaught exception)
    retries,    \* the loop counter `retries`
    probes,     \* run_command calls of the present loop's probe
    wcalls,     \* calls of check_win_minion_connected by this process
    reboots,    \* system.reboot commands issued by this process
    wexit,      \* status passed to sys.exit, -1 while none
    exhausted,  \* loops left because `retries <= 24` became false
    wlast,      \* the last probe: its loop, attempt number, what came back
                \* and the seconds slept after it
    scenario,   \* how many replies of the reboot convergence scenario the
                \* probes of the first call have followed, -1 once they differ
    wHist,      \* whether an earlier invocation set salt_minion_rebooted
    \* ---- get_minion_ip_address ----------------------------------------
    ipc,        \* position: "idle", "loop", "returned", "exited", "raised"
    attempts,   \* the loop counter `attempts`
    ipcalls,    \* calls of get_minion_ip_address by this process
    private,    \* options.ssh_private_address
    ipRet,      \* the value returned
    ipExit,     \* status passed to sys.exit, -1 while none
    ipLast,     \* the last probe: its attempt number, exit code and what
                \* came back
    ipCmds,     \* run_command calls (sync and queries) made by this call
    ipNow,      \* the address this invocation discovered last, and whether the
                \* save_state after it left that address in the state file
    ipHist,     \* ipNow of the latest earlier invocation that discovered one
    \* ---- run_command --------------------------------------------------
    cpc,        \* position: "idle", "poll", "returned", "raised"
    return_output,   \* parameter return_output
    proc,       \* the local `proc`: "unbound", "open" or "closed"
    proc_terminated, \* the local proc_terminated
    alive,      \* whether the child is still running
    exitstatus, \* proc.exitstatus: the status the child ended with, -1 while
                \* it runs
    stdout_buffer,   \* the local stdout_buffer, a text
    stderr_buffer,   \* the local stderr_buffer, a text
    received,   \* the chunks proc.recv returned in this call, per stream, in
                \* order
    quiet,      \* a poll of this call found the child exited and returned no
                \* output on either stream
    closes,     \* calls of proc.close made by this call
    terr,       \* where vt.TerminalException was raised in this call:
                \* "none", "spawn" or "recv"
    rcRet,      \* what run_command returned: "None", "exitstatus", "tuple"
    rcStatus,   \* proc.exitstatus as returned, -1 when not returned
    rcExc,      \* the exception that left run_command, "none" when none
    rcalls,     \* calls of run_command by this process
    \* ---- bootstrap_parallels_minion ------------------------------------
    bpc,        \* position: "idle", "loop", "returned", "raised"
    fcn,        \* index of the step the for loop runs next (1..5)
    stepsRun,   \* the steps called so far, in the order of the calls
    exitcode,   \* the local exitcode: what the last step returned
    cmds,       \* run_command calls made by this bootstrap
    bRet,       \* what bootstrap_parallels_minion returned
    \* ---- main ----------------------------------------------------------
    ppc,        \* position in the pipeline: "idle", "provision", "verify",
                \* "access", "prep", "test", "artifacts", "done" (main
                \* returned), "exited" (sys.exit), "raised"
    flags,      \* the flags of this invocation that select the stages
    prepDone,   \* preparation SLS files run so far
    pExit,      \* exit status of the process, -1 while it runs
    stages,     \* the stages started by this invocation, in order
    failed,     \* the first stage that handed main a non-zero code or None
    resumed,    \* load_state of this invocation found the bootstrap fact
    invocations, \* invocations of main in this workspace so far
    \* ---- check_cloned_reposiory_commit / check_bootstrapped_minion_version ---
    vpc,        \* position: "idle", "returned", "exited", "raised"
    vfn,        \* the function that was called
    vargs,      \* the text the minion reported and the text that is expected
    vprobe,     \* what the probe command brought back
    vsaid,      \* the messages printed after the probe
    vexit,      \* status passed to sys.exit, -1 while none
    vcmds,      \* run_command calls made by the call
    \* ---- run_ssh_command / run_state_on_vm / test_ssh_root_login -------
    spc,        \* position: "idle", "sent" (the ssh command was run), "exited"
    sVia,       \* the caller: "run_state_on_vm" or "run_ssh_command"
    sGiven,     \* the remote command as the caller built it
    sSent,      \* the remote command handed to ssh, before pipes.quote
    sProbe,     \* what the root login probe of this call returned, if it ran
    sProbes,    \* root login probes run in this workspace so far
    scalls,     \* remote commands of this invocation so far
    \* ---- bootstrap_cloud_minion ----------------------------------------
    kpc,        \* position: "idle", "returned", "raised"
    kCmd,       \* the salt-cloud command line that was run
    kIn,        \* what salt-cloud brought back
    kCaught,    \* whether the except branch of the address extraction ran
    kRet,       \* what bootstrap_cloud_minion returned, -1 while none
    \* ---- bootstrap_parallels_minion.vm_cloned --------------------------
    gpc,        \* position: "idle", "stop poll", "clone poll", "returned", "raised"
    gTries,     \* the i of the _repeat that is polling
    gLog,       \* the commands issued and the keys the polls found, in order
    gSource,    \* the status text of the template VM
    gLast,      \* the output of the last poll
    gRet,       \* what vm_cloned returned, -1 while none
    \* ---- sync_minion / get_minion_python_executable --------------------
    fpc,        \* position: "idle", "returned", "exited", "raised"
    fName,      \* the function that was called
    fCmds,      \* run_command calls made by the call
    fExit,      \* status passed to sys.exit, -1 while none
    fRet,       \* what the call returned
    \* ---- run_winexe_command / prepare_winexe_access --------------------
    xpc,        \* position: "idle", "sent", "exited", "raised"
    xIn,        \* the credentials, host and remote command of the call
    xSaid,      \* the messages the call printed, in order
    xCmd,       \* the command line handed to win_cmd
    xLog,       \* its logging_command
    xCreds,     \* options.win_username and options.win_password
    xRet,       \* what win_cmd returned
    xcalls,     \* calls made so far
    \* ---- delete_parallels_vm -------------------------------------------
    dpc,        \* position: "idle", "stop", "delete", "key", "return", "exited"
    dCodes,     \* what run_command returned for the commands run so far
    dRet,       \* the value returned, -1 while none
    \* ---- find_private_addr ---------------------------------------------
    qpc,        \* position: "idle", "returned"
    qList,      \* the list of addresses it was given
    qRet,       \* the text it returned
    \* ---- main, --show-default-command ----------------------------------
    shown,      \* "no", "asked" (the option was given) or "printed" (the command was printed)
    wiped,      \* this invocation unlinked a state file that held a discovered fact
    \* ---- bootstrap_salt: checksum poll and installer -------------------
    hpc,        \* position: "idle", "poll", "install", "returned", "raised"
    hash_code,  \* the stdout of `cat <pkg>.md5`, the key of the poll
    hTries,     \* the i of the checksum poll
    hLast,      \* the output of the last `md5 -q` probe
    hInstalled, \* the installer command was run
    hRet        \* what the step returned so far, -1 while none

repeatVars == <<rpc, key, tries, sleep, i, std_out, runs, sleeps, slept, hits, ret>>
stateVars == <<options, stateFile, lastOp, mpc, opKept, opReplaced, opRead>>

winVars == <<wpc, retries, probes, wcalls, reboots, wexit, exhausted, wlast, scenario, wHist>>

ipVars == <<ipc, attempts, ipcalls, private, ipRet, ipExit, ipLast, ipCmds, ipNow, ipHist>>

runVars == <<cpc, return_output, proc, proc_terminated, alive, exitstatus,
             stdout_buffer, stderr_buffer, received, quiet, closes, terr, rcRet,
             rcStatus, rcExc, rcalls>>

parVars == <<bpc, fcn, stepsRun, exitcode, cmds, bRet>>

mainVars == <<ppc, flags, prepDone, pExit, stages, failed, resumed, invocations>>

verVars == <<vpc, vfn, vargs, vprobe, vsaid, vexit, vcmds>>

sshVars == <<spc, sVia, sGiven, sSent, sProbe, sProbes, scalls>>

cloudVars == <<kpc, kCmd, kIn, kCaught, kRet>>

cloneVars == <<gpc, gTries, gLog, gSource, gLast, gRet>>

factVars == <<fpc, fName, fCmds, fExit, fRet>>

winexeVars == <<xpc, xIn, xSaid, xCmd, xLog, xCreds, xRet, xcalls>>

delVars == <<dpc, dCodes, dRet>>

privVars == <<qpc, qList, qRet>>

showVars == <<shown, wiped>>

hashVars == <<hpc, hash_code, hTries, hLast, hInstalled, hRet>>

vars == <<rpc, key, tries, sleep, i, std_out, runs, sleeps, slept, hits, ret,
          options, stateFile, lastOp, mpc, opKept, opReplaced, opRead,
          wpc, retries, probes, wcalls, reboots, wexit, exhausted, wlast, scenario, wHist,
          ipc, attempts, ipcalls, private, ipRet, ipExit, ipLast, ipCmds, ipNow, ipHist,
          cpc, return_output, proc, proc_terminated, alive, stdout_buffer,
          stderr_buffer, closes, terr, rcRet, rcStatus, rcExc, rcalls,
          bpc, fcn, stepsRun, exitcode, cmds, bRet,
          ppc, flags, prepDone, pExit, stages, failed, resumed, invocations,
          vpc, vfn, vargs, vprobe, vsaid, vexit, vcmds,
          spc, sVia, sGiven, sSent, sProbe, sProbes, scalls,
          kpc, kCmd, kIn, kCaught, kRet,
          gpc, gTries, gLog, gSource, gLast, gRet,
          fpc, fName, fCmds, fExit, fRet,
          xpc, xIn, xSaid, xCmd, xLog, xCreds, xRet, xcalls,
          dpc, dCodes, dRet,
          qpc, qList, qRet,
          shown, wiped,
          hpc, hash_code, hTries, hLast, hInstalled, hRet>>

-----------------------------------------------------------------------------
(* Bounds of the model *)

\* longest text (command output, key) that is enumerated
MaxTextLen == 2
\* largest value of the tries parameter that is enumerated
MaxTries == 3
\* most calls of check_win_minion_connected in one process
MaxWinCalls == 2
\* most calls of get_minion_ip_address in one process
MaxIpCalls == 2
\* most chunks of output one stream of a command delivers
MaxChunks == 2
\* most calls of run_command in one process
MaxRunCalls == 2
\* most --test-prep-sls options of one invocation
MaxPrepSls == 1
\* most invocations of main in one workspace
MaxInvocations == 2

\* longest text that follows the first seven characters of a revision
MaxTailLen == 1
\* most words of a remote command
MaxCommandWords == 2
\* most remote commands of one invocation
MaxSshCalls == 2

\* the characters texts are made of
Alphabet == {"a", "b"}

\* the sleep intervals the callers pass (default 7, accept_key passes 5)
SleepChoices == {5, 7}

Texts == UNION {[1..n -> Alphabet] : n \in 0..MaxTextLen}

-----------------------------------------------------------------------------
(* Python helpers *)

\* `key in std_out` on strings: key occurs as a substring
Contains(k, s) ==
    \E j \in 0..(Len(s) - Len(k)) : SubSeq(s, j + 1, j + Len(k)) = k

\* What run_command(command, options, return_output=True) hands to _repeat:
\* a tuple whose first element is the captured stdout, or None when the
\* terminal raised a TerminalException (the except branch returns nothing).
RunCommandResults ==
    [none : {FALSE}, stdout : Texts] \cup [none : {TRUE}, stdout : {<<>>}]

-----------------------------------------------------------------------------
(* bootstrap_parallels_minion._repeat *)

\* loop condition of `for i in range(tries)`
RepeatLoopCondOffByOne(idx, n) == idx <= n
RepeatLoopCond(idx, n) == idx < n

\* number of time.sleep(sleep) calls of one iteration: none when the key was
\* found (return 0 comes first), one otherwise
RepeatSleepsAlways(found) == 1
RepeatSleeps(found) == IF found THEN 0 ELSE 1

RepeatIdle ==
    /\ rpc = "idle" /\ key = <<>> /\ tries = 0 /\ sleep = 0 /\ i = 0
    /\ std_out = <<>> /\ runs = 0 /\ sleeps = 0 /\ slept = 0
    /\ hits = <<>> /\ ret = -1

\* a caller enters _repeat(command, key, tries, sleep)
RepeatCall ==
    /\ rpc = "idle"
    /\ \E k \in Texts, n \in 1..MaxTries, d \in SleepChoices :
          /\ key' = k
          /\ tries' = n
          /\ sleep' = d
    /\ rpc' = "loop"
    /\ i' = 0
    /\ UNCHANGED <<std_out, runs, sleeps, slept, hits, ret>>
    /\ UNCHANGED <<stateVars, winVars, ipVars, runVars, parVars, mainVars, verVars, sshVars, cloudVars, cloneVars, factVars, winexeVars, delVars, privVars, showVars, hashVars>>

\* one iteration of the loop body: the probe returns a tuple
RepeatIter ==
    /\ rpc = "loop"
    /\ RepeatLoopCond(i, tries)
    /\ \E r \in RunCommandResults :
          /\ ~r.none
          /\ std_out' = r.stdout
          /\ runs' = runs + 1
          /\ hits' = Append(hits, Contains(key, r.stdout))
          /\ sleeps' = sleeps + RepeatSleeps(Contains(key, r.stdout))
          /\ slept' = slept + sleep * RepeatSleeps(Contains(key, r.stdout))
          /\ IF Contains(key, r.stdout)
                THEN /\ ret' = 0
                     /\ rpc' = "done"
                     /\ i' = i
                ELSE /\ ret' = ret
                     /\ rpc' = "loop"
                     /\ i' = i + 1
    /\ UNCHANGED <<key, tries, sleep>>
    /\ UNCHANGED <<stateVars, winVars, ipVars, runVars, parVars, mainVars, verVars, sshVars, cloudVars, cloneVars, factVars, winexeVars, delVars, privVars, showVars, hashVars>>

\* one iteration of the loop body: run_command returned None, and
\* `run_command(...)[0]` raises TypeError out of _repeat
RepeatIterRaises ==
    /\ rpc = "loop"
    /\ RepeatLoopCond(i, tries)
    /\ \E r \in RunCommandResults :
          /\ r.none
          /\ runs' = runs + 1
    /\ rpc' = "raised"
    /\ UNCHANGED <<key, tries, sleep, i, std_out, sleeps, slept, hits, ret>>
    /\ UNCHANGED <<stateVars, winVars, ipVars, runVars, parVars, mainVars, verVars, sshVars, cloudVars, cloneVars, factVars, winexeVars, delVars, privVars, showVars, hashVars>>

\* the loop is over: return 1
RepeatExhausted ==
    /\ rpc = "loop"
    /\ ~RepeatLoopCond(i, tries)
    /\ ret' = 1
    /\ rpc' = "done"
    /\ UNCHANGED <<key, tries, sleep, i, std_out, runs, sleeps, slept, hits>>
    /\ UNCHANGED <<stateVars, winVars, ipVars, runVars, parVars, mainVars, verVars, sshVars, cloudVars, cloneVars, factVars, winexeVars, delVars, privVars, showVars, hashVars>>

NextRepeat == RepeatCall \/ RepeatIter \/ RepeatIterRaises \/ RepeatExhausted


-----------------------------------------------------------------------------
(* Python values and their JSON form *)

\* a Python scalar: its type and its printed form
PyText(s) == [t |-> "text", v |-> s]
PyBool(s) == [t |-> "bool", v |-> s]
PyInt(s)  == [t |-> "int", v |-> s]

\* json.dump of a scalar: a quoted string, the literal true/false, a number
JsonDumpsBoolAsStr(x) ==
    CASE x.t = "text" -> [j |-> "string", s |-> x.v]
      [] x.t = "bool" -> [j |-> "string", s |-> x.v]
      [] x.t = "int"  -> [j |-> "number", s |-> x.v]
JsonDumps(x) ==
    CASE x.t = "text" -> [j |-> "string", s |-> x.v]
      [] x.t = "bool" -> [j |-> "literal", s |-> IF x.v = "True" THEN "true" ELSE "false"]
      [] x.t = "int"  -> [j |-> "number", s |-> x.v]

\* json.load of a scalar
JsonLoads(y) ==
    CASE y.j = "string"  -> PyText(y.s)
      [] y.j = "literal" -> PyBool(IF y.s = "true" THEN "True" ELSE "False")
      [] y.j = "number"  -> PyInt(y.s)

-----------------------------------------------------------------------------
(* save_state / load_state *)

\* the names save_state persists
Whitelist ==
    {"workspace", "require_sudo", "output_columns", "salt_minion_synced",
     "minion_ip_address", "minion_python_executable", "salt_minion_bootstrapped"}

\* allow_overwrite_variables of load_state
allow_overwrite_variables == {"output_columns", "workspace"}

\* options that are never persisted
Transient == {"vm_name", "salt_minion_rebooted"}

EmptyDict == [k \in {} |-> PyText("")]

AbsentFile == [kind |-> "absent", obj |-> [k \in {} |-> JsonDumps(PyText(""))]]
GarbageFile == [kind |-> "garbage", obj |-> [k \in {} |-> JsonDumps(PyText(""))]]

\* json.load(open(state_file)) raises ValueError: the bytes are no JSON document
JsonLoadRaises(file) == file.kind = "garbage"

\* `except ValueError:` around json.load in save_state and load_state
ValueErrorUncaught == FALSE
ValueErrorCaught == TRUE

\* the ValueError of json.load leaves save_state / load_state
StateRaises(file) == JsonLoadRaises(file) /\ ~ValueErrorCaught

\* how a call of save_state / load_state on this file ends
Outcome(op, file) ==
    CASE ~StateRaises(file) -> op
      [] op = "load" -> "load raised"
      [] OTHER -> "save raised"

\* `state = json.load(open(state_file))` with its guards: {} when the file is
\* absent or json.load raises ValueError
ReadState(file) ==
    IF file.kind = "json"
        THEN [k \in DOMAIN file.obj |-> JsonLoads(file.obj[k])]
        ELSE EmptyDict

\* the loop of save_state: which value ends up under each name
SavedDictOverwrite(opts, state) ==
    [k \in DOMAIN state \cup (Whitelist \cap DOMAIN opts) |->
        IF k \in Whitelist \cap DOMAIN opts THEN opts[k] ELSE state[k]]
SavedDictAllOptions(opts, state) ==
    [k \in DOMAIN state \cup DOMAIN opts |->
        IF k \in DOMAIN state THEN state[k] ELSE opts[k]]
SavedDict(opts, state) ==
    [k \in DOMAIN state \cup (Whitelist \cap DOMAIN opts) |->
        IF k \in DOMAIN state THEN state[k] ELSE opts[k]]

\* save_state(options): the file it leaves
SaveStateFile(opts, file) ==
    LET new == SavedDict(opts, ReadState(file))
    IN  IF StateRaises(file)
           THEN file
           ELSE [kind |-> "json", obj |-> [k \in DOMAIN new |-> JsonDumps(new[k])]]

\* the loop of load_state: whether the persisted value of key is skipped
LoadSkipsNever(k, opts) == FALSE
LoadSkipsAllowListed(k, opts) == k \in allow_overwrite_variables /\ k \in DOMAIN opts
LoadSkips(k, opts) == k \notin allow_overwrite_variables /\ k \in DOMAIN opts

\* load_state(options): the option set it leaves
LoadStateOptions(opts, file) ==
    LET state == ReadState(file)
    IN  [k \in DOMAIN opts \cup DOMAIN state |->
            IF k \in DOMAIN state /\ ~LoadSkips(k, opts) THEN state[k] ELSE opts[k]]

\* parser.parse_args(): workspace, output_columns and the flags always have a
\* value (their argparse defaults); the discovered facts are not attributes yet
OutputColumnsChoices == {PyInt("80"), PyInt("120")}

ParsedOptions(oc, echo) ==
    [k \in {"workspace", "output_columns", "vm_name", "echo_parseable_output"} |->
        CASE k = "workspace" -> PyText("/ws")
          [] k = "output_columns" -> oc
          [] k = "vm_name" -> PyText("vm")
          [] k = "echo_parseable_output" -> echo]

\* the values setattr(options, name, value) is called with
FactValues(k) ==
    CASE k = "require_sudo" -> {PyBool("True"), PyBool("False")}
      [] k = "salt_minion_synced" -> {PyText("yes")}
      [] k = "minion_ip_address" -> {PyText("10.0.0.5"), PyText("No response")}
      [] k = "minion_python_executable" -> {PyText("/usr/bin/python")}
      [] k = "salt_minion_bootstrapped" -> {PyText("yes")}
      [] k = "salt_minion_rebooted" -> {PyBool("True")}

FactNames ==
    {"require_sudo", "salt_minion_synced", "minion_ip_address",
     "minion_python_executable", "salt_minion_bootstrapped", "salt_minion_rebooted"}

\* the guards of the steps that set a fact: test_ssh_root_login, sync_minion
\* and get_minion_python_executable return early when their fact is already an
\* attribute, check_win_minion_connected reboots only while
\* salt_minion_rebooted is not set; salt_minion_bootstrapped and
\* minion_ip_address are set unconditionally (bootstrap_cloud_minion,
\* check_win_minion_connected)
MaySetAttr(opts, k) ==
    k \in {"require_sudo", "salt_minion_synced", "minion_python_executable",
           "salt_minion_rebooted"} => k \notin DOMAIN opts

\* setattr(options, k, v)
SetAttrOptions(opts, k, v) ==
    [n \in DOMAIN opts \cup {k} |-> IF n = k THEN v ELSE opts[n]]

\* main: with --echo-parseable-output an existing state file is unlinked
\* before load_state runs
FileAfterEchoKept(opts, file) == file
FileAfterEchoUnlink(opts, file) ==
    IF opts["echo_parseable_output"] = PyBool("True") /\ file.kind # "absent"
        THEN AbsentFile
        ELSE file

StateIdle ==
    /\ options = ParsedOptions(PyInt("80"), PyBool("False"))
    /\ stateFile = AbsentFile
    /\ lastOp = "parse"
    /\ mpc = "parsed"
    /\ opKept = {}
    /\ opReplaced = {}
    /\ opRead = "none"

\* names whose value in `after` differs from the one `before` held
ReplacedNames(before, after) ==
    {k \in DOMAIN before \cap DOMAIN after : after[k] # before[k]}

\* names held by both the option set and the state file with different
\* values, for which `after` still holds the value `before` held
KeptNames(before, after, other) ==
    {k \in DOMAIN before \cap DOMAIN other :
        before[k] # other[k] /\ after[k] = before[k]}

\* the file holds a fact an invocation discovered: a whitelisted name that
\* parse_args does not set
HoldsFacts(file) == DOMAIN ReadState(file) \ allow_overwrite_variables # {}

\* a new invocation of main: options = parser.parse_args()
ParseArgs ==
    /\ mpc = "running"
    /\ \E oc \in OutputColumnsChoices, echo \in {PyBool("True"), PyBool("False")} :
          options' = ParsedOptions(oc, echo)
    /\ lastOp' = "parse"
    /\ mpc' = "parsed"
    /\ opKept' = {}
    /\ opReplaced' = {}
    /\ opRead' = "none"
    /\ wiped' = FALSE
    /\ UNCHANGED <<stateFile, shown>>
    /\ UNCHANGED <<repeatVars, winVars, ipVars, runVars, parVars, mainVars, verVars, sshVars, cloudVars, cloneVars, factVars, winexeVars, delVars, privVars, hashVars>>

\* main: the --echo-parseable-output unlink, then load_state(options)
MainLoadState ==
    /\ mpc = "parsed"
    /\ stateFile' = FileAfterEchoUnlink(options, stateFile)
    /\ options' = LoadStateOptions(options, FileAfterEchoUnlink(options, stateFile))
    /\ lastOp' = Outcome("load", stateFile')
    /\ opRead' = stateFile'.kind
    /\ mpc' = "running"
    /\ opKept' = KeptNames(options, options', ReadState(stateFile'))
    /\ opReplaced' = ReplacedNames(options, options')
    /\ wiped' = (stateFile' # stateFile /\ HoldsFacts(stateFile))
    /\ UNCHANGED shown
    /\ UNCHANGED <<repeatVars, winVars, ipVars, runVars, parVars, mainVars, verVars, sshVars, cloudVars, cloneVars, factVars, winexeVars, delVars, privVars, hashVars>>

\* load_state(options) applied to the option set as it is now, facts included
LoadState ==
    /\ mpc = "running"
    /\ options' = LoadStateOptions(options, stateFile)
    /\ lastOp' = Outcome("load", stateFile)
    /\ opRead' = stateFile.kind
    /\ opKept' = KeptNames(options, options', ReadState(stateFile))
    /\ opReplaced' = ReplacedNames(options, options')
    /\ UNCHANGED <<stateFile, mpc>>
    /\ UNCHANGED <<repeatVars, winVars, ipVars, runVars, parVars, mainVars, verVars, sshVars, cloudVars, cloneVars, factVars, winexeVars, delVars, privVars, showVars, hashVars>>

\* setattr(options, name, value), as the steps that discover a fact do
SetAttr ==
    /\ mpc = "running"
    /\ \E k \in FactNames : \E v \in FactValues(k) :
          /\ MaySetAttr(options, k)
          /\ options' = SetAttrOptions(options, k, v)
    /\ lastOp' = "setattr"
    /\ opKept' = {}
    /\ opReplaced' = {}
    /\ opRead' = "none"
    /\ UNCHANGED <<stateFile, mpc>>
    /\ UNCHANGED <<repeatVars, winVars, ipVars, runVars, parVars, mainVars, verVars, sshVars, cloudVars, cloneVars, factVars, winexeVars, delVars, privVars, showVars, hashVars>>

\* save_state(options)
SaveState ==
    /\ mpc = "running"
    /\ stateFile' = SaveStateFile(options, stateFile)
    /\ lastOp' = Outcome("save", stateFile)
    /\ opRead' = stateFile.kind
    /\ opKept' = KeptNames(ReadState(stateFile), ReadState(stateFile'), options)
    /\ opReplaced' = ReplacedNames(ReadState(stateFile), ReadState(stateFile'))
    /\ UNCHANGED <<options, mpc>>
    /\ UNCHANGED <<repeatVars, winVars, ipVars, runVars, parVars, mainVars, verVars, sshVars, cloudVars, cloneVars, factVars, winexeVars, delVars, privVars, showVars, hashVars>>

\* the file is left holding bytes that are no JSON document
CorruptState ==
    /\ stateFile.kind = "json"
    /\ stateFile' = GarbageFile
    /\ lastOp' = "corrupt"
    /\ opKept' = {}
    /\ opReplaced' = {}
    /\ opRead' = "none"
    /\ UNCHANGED <<options, mpc>>
    /\ UNCHANGED <<repeatVars, winVars, ipVars, runVars, parVars, mainVars, verVars, sshVars, cloudVars, cloneVars, factVars, winexeVars, delVars, privVars, showVars, hashVars>>

NextState ==
    ParseArgs \/ MainLoadState \/ LoadState \/ SetAttr \/ SaveState \/ CorruptState

-----------------------------------------------------------------------------
(* check_win_minion_connected *)

\* the bound written in the three `while retries <= 24` loops
WinRetryLimit == 24

\* exit statuses a salt command ends with
ExitCodes == {0, 1, 2}

\* what a salt --out=json probe prints
ProbeOutputs ==
    {"", "\n", "junk", "{}", "{\"vm\": true}", "{\"vm\": false}",
     "{\"vm\": \"Minion did not return\"}", "{\"vm\": {\"saltversion\": \"2016.3.0\", \"ipv4\": [\"10.0.0.5\"]}}"}

\* stdout.strip()
Strip(text) == IF text = "\n" THEN "" ELSE text

\* json.loads(text) raises ValueError
JsonRaises(text) == text \in {"", "junk"}

\* json.loads(text)[options.vm_name]: "KeyError" when the document has no
\* entry for the minion, else the kind of the entry
JsonEntry(text) ==
    CASE text = "{}" -> "KeyError"
      [] text = "{\"vm\": true}" -> "True"
      [] text = "{\"vm\": false}" -> "False"
      [] text = "{\"vm\": \"Minion did not return\"}" -> "str"
      [] OTHER -> "dict"

\* run_command(cmd, options, return_output=True): (stdout, stderr, exitcode),
\* or None after a TerminalException
WinRunResults ==
    [none : {FALSE}, stdout : ProbeOutputs, exitcode : ExitCodes]
        \cup [none : {TRUE}, stdout : {""}, exitcode : {0}]

\* what a probe brought back, as the loops tell the cases apart
ProbeKind(r) ==
    CASE r.none -> "None"
      [] Strip(r.stdout) = "" -> "empty"
      [] JsonRaises(Strip(r.stdout)) -> "unparsable"
      [] OTHER -> JsonEntry(Strip(r.stdout))

\* `while retries <= 24`
WinLoopCond(n) == n <= WinRetryLimit

\* `if retries > 24`: the attempt is the last one
WinLastAttempt(n) == n > WinRetryLimit

\* `if retries <= 24: time.sleep(seconds)`
WinSleep(n, seconds) == IF n <= WinRetryLimit THEN seconds ELSE 0

NoProbe == [loop |-> "none", attempt |-> 0, kind |-> "none", slept |-> 0]

\* the reboot convergence scenario: the replies of the pings of the first
\* loop, where the last one is followed by a true reboot reply, and the
\* replies of the pings of the second loop
LivenessSequence == <<"False", "False", "True">>
StopSequence == <<"True", "True", "False">>

\* the scenario position after a ping of `loop` that brought back `kind`
ScenarioStep(pos, loop, kind, rebootOk) ==
    LET a == Len(LivenessSequence)
        b == Len(StopSequence)
    IN  CASE pos < 0 -> -1
          [] loop = "A" /\ pos < a ->
                IF kind = LivenessSequence[pos + 1] /\ (pos + 1 = a => rebootOk)
                   THEN pos + 1 ELSE -1
          [] loop = "B" /\ pos >= a /\ pos < a + b ->
                IF kind = StopSequence[pos - a + 1] THEN pos + 1 ELSE -1
          [] OTHER -> -1

ScenarioDone == Len(LivenessSequence) + Len(StopSequence)

WinIdle ==
    /\ wpc = "idle" /\ retries = 0 /\ probes = 0 /\ wcalls = 0
    /\ reboots = 0 /\ wexit = -1 /\ exhausted = {}
    /\ wlast = NoProbe
    /\ scenario = 0 /\ wHist = FALSE

\* `if 'salt_minion_bootstrapped' not in options: ... sys.exit(1)`, the first
\* statement of sync_minion, get_minion_ip_address,
\* get_minion_python_executable, check_win_minion_connected and
\* check_bootstrapped_minion_version
NeverBootstrapMissing(opts) == FALSE
BootstrapMissing(opts) == "salt_minion_bootstrapped" \notin DOMAIN opts

\* main reached the provisioning stage and the bootstrap set the fact
MinionBootstrapped ==
    /\ wpc = "idle"
    /\ ipc = "idle"
    /\ mpc = "running"
    /\ "salt_minion_bootstrapped" \notin DOMAIN options
    /\ options' = SetAttrOptions(options, "salt_minion_bootstrapped", PyText("yes"))
    /\ UNCHANGED <<stateFile, lastOp, mpc, opKept, opReplaced, opRead>>
    /\ UNCHANGED <<repeatVars, winVars, ipVars, runVars, parVars, mainVars, verVars, sshVars, cloudVars, cloneVars, factVars, winexeVars, delVars, privVars, showVars, hashVars>>

\* getattr(options, 'salt_minion_rebooted', False)
Rebooted(opts) ==
    "salt_minion_rebooted" \in DOMAIN opts /\ opts["salt_minion_rebooted"] = PyBool("True")

\* entry of check_win_minion_connected, from "idle" or again after it returned
WinCall ==
    /\ wpc \in {"idle", "returned"}
    /\ mpc = "running"
    /\ wcalls < MaxWinCalls
    /\ wcalls' = wcalls + 1
    /\ retries' = 0
    /\ probes' = 0
    /\ exhausted' = {}
    /\ wlast' = NoProbe
    /\ IF BootstrapMissing(options)
          THEN wpc' = "exited" /\ wexit' = 1
          ELSE /\ wexit' = wexit
               /\ wpc' = IF Rebooted(options) THEN "grains" ELSE "pingA"
    /\ scenario' = IF wcalls = 0 THEN scenario ELSE -1
    /\ UNCHANGED <<reboots, wHist>>
    /\ UNCHANGED <<repeatVars, stateVars, ipVars, runVars, parVars, mainVars, verVars, sshVars, cloudVars, cloneVars, factVars, winexeVars, delVars, privVars, showVars, hashVars>>

\* the part of a ping / grains iteration before the reply is looked at:
\* "raised" (unpacking None), "exited" (sys.exit on the last attempt) or "go on"
ProbeFate(r, n) ==
    CASE r.none -> "raised"
      [] r.exitcode # 0 /\ WinLastAttempt(n) -> "exited"
      [] Strip(r.stdout) = "" /\ WinLastAttempt(n) -> "exited"
      [] OTHER -> "go on"

\* the status of that sys.exit
ProbeExit(r) == IF r.exitcode # 0 THEN r.exitcode ELSE 1

\* the reboot command of the first loop: "raised", "exited" (sys.exit(1)),
\* "rebooted" (a true reply) or "break"
RebootFate(rb, n) ==
    CASE rb.none -> "raised"
      [] (rb.exitcode # 0 \/ Strip(rb.stdout) = "") /\ WinLastAttempt(n) -> "exited"
      [] JsonRaises(Strip(rb.stdout)) -> "break"
      [] JsonEntry(Strip(rb.stdout)) = "KeyError" -> "raised"
      [] JsonEntry(Strip(rb.stdout)) = "True" -> "rebooted"
      [] OTHER -> "break"

\* where an iteration of the first loop leaves the call: after the reboot
\* command every path that stays in the process ends in `break`
PingANextNoBreak(r, rb, n) ==
    CASE ProbeFate(r, n) # "go on" -> ProbeFate(r, n)
      [] ProbeKind(r) = "KeyError" -> "raised"
      [] ProbeKind(r) # "True" -> "pingA"
      [] RebootFate(rb, n) \in {"raised", "exited"} -> RebootFate(rb, n)
      [] OTHER -> "pingA"
PingANext(r, rb, n) ==
    CASE ProbeFate(r, n) # "go on" -> ProbeFate(r, n)
      [] ProbeKind(r) = "KeyError" -> "raised"
      [] ProbeKind(r) # "True" -> "pingA"
      [] RebootFate(rb, n) \in {"raised", "exited"} -> RebootFate(rb, n)
      [] OTHER -> "pingB"

\* where an iteration of the second loop leaves the call
PingBNext(r, n) ==
    CASE ProbeFate(r, n) # "go on" -> ProbeFate(r, n)
      [] ProbeKind(r) \in {"empty", "unparsable", "True"} -> "pingB"
      [] ProbeKind(r) = "KeyError" -> "raised"
      [] OTHER -> "grains"

\* where an iteration of the third loop leaves the call
GrainsNext(r, n) ==
    CASE ProbeFate(r, n) # "go on" -> ProbeFate(r, n)
      [] ProbeKind(r) = "KeyError" -> "raised"
      [] ProbeKind(r) = "dict" -> "returned"
      [] OTHER -> "grains"

\* `retries = 0` and a fresh probe count when the next loop is entered
EnteredLoop(newpc, oldpc) == newpc \in {"pingB", "grains"} /\ newpc # oldpc

\* the reboot command is run only after a true ping
NoReboot == [none |-> TRUE, stdout |-> "", exitcode |-> 0]

\* one iteration of the first loop: ping, and reboot on a true reply
WinPingA ==
    /\ wpc = "pingA"
    /\ WinLoopCond(retries)
    /\ \E r \in WinRunResults, rb \in WinRunResults :
        LET n == retries + 1
            next == PingANext(r, rb, n)
            pinged == ProbeFate(r, n) = "go on" /\ ProbeKind(r) = "True"
            nap == IF next = "pingA" THEN WinSleep(n, 30) ELSE 0
        IN  /\ pinged \/ rb = NoReboot
            /\ wpc' = next
            /\ retries' = IF EnteredLoop(next, "pingA") THEN 0 ELSE n
            /\ probes' = IF EnteredLoop(next, "pingA") THEN 0 ELSE probes + 1
            /\ wlast' = [loop |-> "A", attempt |-> n, kind |-> ProbeKind(r), slept |-> nap]
            /\ reboots' = IF pinged THEN reboots + 1 ELSE reboots
            /\ wexit' = CASE next # "exited" -> wexit
                          [] pinged -> 1
                          [] OTHER -> ProbeExit(r)
            /\ options' = IF pinged /\ RebootFate(rb, n) = "rebooted"
                             THEN SetAttrOptions(options, "salt_minion_rebooted", PyBool("True"))
                             ELSE options
            /\ scenario' = ScenarioStep(scenario, "A", ProbeKind(r),
                                        pinged /\ RebootFate(rb, n) = "rebooted")
    /\ UNCHANGED <<wcalls, exhausted, wHist>>
    /\ UNCHANGED <<stateFile, lastOp, mpc, opKept, opReplaced, opRead>>
    /\ UNCHANGED <<repeatVars, ipVars, runVars, parVars, mainVars, verVars, sshVars, cloudVars, cloneVars, factVars, winexeVars, delVars, privVars, showVars, hashVars>>

\* a loop ends because `retries <= 24` is false: the code after it runs
WinLoopOver ==
    /\ wpc \in {"pingA", "pingB", "grains"}
    /\ ~WinLoopCond(retries)
    /\ exhausted' = exhausted \cup {wpc}
    /\ wpc' = CASE wpc = "pingA" -> "pingB"
                [] wpc = "pingB" -> "grains"
                [] wpc = "grains" -> "returned"
    /\ retries' = 0
    /\ probes' = 0
    /\ UNCHANGED <<wcalls, reboots, wexit, wlast, scenario, wHist>>
    /\ UNCHANGED <<repeatVars, stateVars, ipVars, runVars, parVars, mainVars, verVars, sshVars, cloudVars, cloneVars, factVars, winexeVars, delVars, privVars, showVars, hashVars>>

\* one iteration of the second loop: ping until the minion stops answering
WinPingB ==
    /\ wpc = "pingB"
    /\ WinLoopCond(retries)
    /\ \E r \in WinRunResults :
        LET n == retries + 1
            next == PingBNext(r, n)
            nap == CASE next # "pingB" -> 0
                     [] ProbeKind(r) = "True" -> 30
                     [] OTHER -> WinSleep(n, 30)
        IN  /\ wpc' = next
            /\ retries' = IF EnteredLoop(next, "pingB") THEN 0 ELSE n
            /\ probes' = IF EnteredLoop(next, "pingB") THEN 0 ELSE probes + 1
            /\ wlast' = [loop |-> "B", attempt |-> n, kind |-> ProbeKind(r), slept |-> nap]
            /\ wexit' = IF next = "exited" THEN ProbeExit(r) ELSE wexit
            /\ scenario' = ScenarioStep(scenario, "B", ProbeKind(r), FALSE)
    /\ UNCHANGED <<wcalls, reboots, exhausted, wHist>>
    /\ UNCHANGED <<repeatVars, stateVars, ipVars, runVars, parVars, mainVars, verVars, sshVars, cloudVars, cloneVars, factVars, winexeVars, delVars, privVars, showVars, hashVars>>

\* one iteration of the third loop: grains.items until a dictionary comes back
WinGrains ==
    /\ wpc = "grains"
    /\ WinLoopCond(retries)
    /\ \E r \in WinRunResults :
        LET n == retries + 1
            next == GrainsNext(r, n)
            nap == IF next = "grains" THEN WinSleep(n, 5) ELSE 0
        IN  /\ wpc' = next
            /\ retries' = n
            /\ probes' = probes + 1
            /\ wlast' = [loop |-> "G", attempt |-> n, kind |-> ProbeKind(r), slept |-> nap]
            /\ wexit' = IF next = "exited" THEN ProbeExit(r) ELSE wexit
            /\ options' =
                 IF next = "returned"
                    THEN SetAttrOptions(
                             SetAttrOptions(options, "bootstrapped_salt_minion_version",
                                            PyText("2016.3.0")),
                             "minion_ip_address", PyText("10.0.0.5"))
                    ELSE options
    /\ UNCHANGED <<wcalls, reboots, exhausted, scenario, wHist>>
    /\ UNCHANGED <<stateFile, lastOp, mpc, opKept, opReplaced, opRead>>
    /\ UNCHANGED <<repeatVars, ipVars, runVars, parVars, mainVars, verVars, sshVars, cloudVars, cloneVars, factVars, winexeVars, delVars, privVars, showVars, hashVars>>

\* the rest of an invocation and the start of the next one in the same
\* workspace, without --echo-parseable-output: after
\* check_win_minion_connected returned, a remote command may have called
\* save_state; then parse_args of the new process
WinNewInvocation ==
    /\ wpc \in {"returned", "exited", "raised"}
    /\ invocations < MaxInvocations
    /\ invocations' = invocations + 1
    /\ options' = ParsedOptions(PyInt("80"), PyBool("False"))
    /\ mpc' = "parsed"
    /\ lastOp' = "parse"
    /\ opKept' = {} /\ opReplaced' = {} /\ opRead' = "none"
    /\ wpc' = "idle" /\ retries' = 0 /\ probes' = 0 /\ wcalls' = 0
    /\ reboots' = 0 /\ wexit' = -1 /\ exhausted' = {} /\ wlast' = NoProbe
    /\ scenario' = -1
    /\ wHist' = (wHist \/ Rebooted(options))
    /\ \E saved \in BOOLEAN :
          stateFile' = IF saved /\ wpc = "returned"
                          THEN SaveStateFile(options, stateFile)
                          ELSE stateFile
    /\ UNCHANGED <<ppc, flags, prepDone, pExit, stages, failed, resumed>>
    /\ UNCHANGED <<repeatVars, ipVars, runVars, parVars, verVars, sshVars, cloudVars, cloneVars, factVars, winexeVars, delVars, privVars, showVars, hashVars>>

NextWin ==
    MainLoadState \/ MinionBootstrapped \/ WinCall \/ WinPingA \/ WinLoopOver
        \/ WinPingB \/ WinGrains \/ WinNewInvocation

-----------------------------------------------------------------------------
(* get_minion_ip_address *)

\* the bound written in `while attempts <= 3` and `if attempts == 3`
IpAttemptLimit == 3

\* addresses the grains report, as their four quads
Addresses == {<<10, 0, 0, 5>>, <<8, 8, 8, 8>>}

\* the addresses find_private_addr tells apart: inside and next to the three
\* RFC 1918 ranges
ReportedAddresses ==
    Addresses \cup {<<172, 16, 0, 1>>, <<172, 32, 0, 1>>, <<192, 168, 1, 1>>}

\* the text of an address
AddrText(q) ==
    CASE q = <<10, 0, 0, 5>> -> "10.0.0.5"
      [] q = <<172, 16, 0, 1>> -> "172.16.0.1"
      [] q = <<172, 32, 0, 1>> -> "172.32.0.1"
      [] q = <<192, 168, 1, 1>> -> "192.168.1.1"
      [] OTHER -> "8.8.8.8"

\* json.loads(stdout.strip()) of what `salt --out=json <vm> grains.get` prints:
\* no JSON document, a document that is no object, an object without the
\* minion, or an object whose entry for the minion is a string (items is empty
\* for '') or a list of addresses, or the string salt prints for a minion that
\* did not answer
NoResponseText == "Minion did not return. [No response]"

IpDocuments ==
    {[doc |-> d, kind |-> "none", items |-> <<>>] : d \in {"invalid", "list", "empty object"}}
        \cup {[doc |-> "object", kind |-> k, items |-> a] :
                k \in {"str", "list"}, a \in {<<>>} \cup {<<q>> : q \in Addresses}}
        \cup {[doc |-> "object", kind |-> "list", items |-> <<<<8, 8, 8, 8>>, <<10, 0, 0, 5>>>>]}
        \cup {[doc |-> "object", kind |-> "no response", items |-> <<>>]}

\* run_command(cmd, options, return_output=True): (stdout, stderr, exitcode)
\* with stdout empty or holding a document, or None after a TerminalException
IpRunResults ==
    [none : {FALSE}, empty : {FALSE}, out : IpDocuments, exitcode : ExitCodes]
        \cup [none : {FALSE}, empty : {TRUE}, out : {CHOOSE d \in IpDocuments : d.doc = "invalid"},
              exitcode : ExitCodes]
        \cup [none : {TRUE}, empty : {TRUE}, out : {CHOOSE d \in IpDocuments : d.doc = "invalid"},
              exitcode : {0}]

\* the test of find_private_addr for one address
IsPrivate(q) ==
    \/ q[1] = 10
    \/ q[1] = 172 /\ q[2] \in 16..31
    \/ q[1] = 192 /\ q[2] = 168

\* find_private_addr(ip_addrs): the loop returns in its first iteration, with
\* the element when it is private and '' when it is not; None for no element.
\* Over a string the elements are its characters, and one digit is never
\* private.  The result is '' for a value that is false in Python.
find_private_addr(e) ==
    CASE e.items = <<>> -> ""
      [] e.kind = "str" -> ""
      [] IsPrivate(e.items[1]) -> AddrText(e.items[1])
      [] OTHER -> ""

\* the body of the try block: "ValueError" / "TypeError" (caught), "KeyError" /
\* "IndexError" (not caught), "not found" (sys.exit(1)) or "ok".  Of the
\* no-response string find_private_addr takes the first character, and
\* int('M') raises ValueError.
IpParse(d, priv) ==
    CASE d.doc = "invalid" -> [fate |-> "ValueError", addr |-> ""]
      [] d.doc = "list" -> [fate |-> "TypeError", addr |-> ""]
      [] d.doc = "empty object" -> [fate |-> "KeyError", addr |-> ""]
      [] d.kind = "no response" ->
            IF priv
               THEN [fate |-> "ValueError", addr |-> ""]
               ELSE [fate |-> "ok", addr |-> NoResponseText]
      [] priv ->
            IF find_private_addr(d) = ""
               THEN [fate |-> "not found", addr |-> ""]
               ELSE [fate |-> "ok", addr |-> find_private_addr(d)]
      [] d.kind = "list" /\ d.items = <<>> -> [fate |-> "IndexError", addr |-> ""]
      [] d.items = <<>> -> [fate |-> "not found", addr |-> ""]
      [] OTHER -> [fate |-> "ok", addr |-> AddrText(d.items[1])]

\* what a probe brought back, as the loop tells the cases apart
IpKind(r, priv) ==
    CASE r.none -> "None"
      [] r.empty -> "empty"
      [] IpParse(r.out, priv).fate \in {"ValueError", "TypeError"} -> "unparsable"
      [] OTHER -> IpParse(r.out, priv).fate

\* where one iteration leaves the call
IpFate(r, priv, n) ==
    CASE r.none -> "raised"
      [] r.exitcode # 0 -> IF n = IpAttemptLimit THEN "exited" ELSE "retry"
      [] r.empty -> IF n = IpAttemptLimit THEN "exited" ELSE "retry"
      [] IpKind(r, priv) = "unparsable" -> "retry"
      [] IpKind(r, priv) \in {"KeyError", "IndexError"} -> "raised"
      [] IpKind(r, priv) = "not found" -> "exited"
      [] OTHER -> "returned"

NoIpProbe == [attempt |-> 0, exitcode |-> 0, kind |-> "none"]

NoDiscovery == [found |-> "", stored |-> FALSE]

IpIdle ==
    /\ ipc = "idle" /\ attempts = 0 /\ ipcalls = 0 /\ private = FALSE
    /\ ipRet = "" /\ ipExit = -1 /\ ipLast = NoIpProbe
    /\ ipCmds = 0 /\ ipNow = NoDiscovery /\ ipHist = NoDiscovery

\* `'No response' in value` for the texts an address option holds
HoldsNoResponse(text) == text \in {"No response", NoResponseText}

\* the cached address is returned: it is set and does not hold 'No response'
IpCachedNever(opts) == FALSE
IpCached(opts) ==
    /\ "minion_ip_address" \in DOMAIN opts
    /\ opts["minion_ip_address"] # PyText("")
    /\ ~HoldsNoResponse(opts["minion_ip_address"].v)

\* sync_minion(options) on a bootstrapped minion: the fact is set whatever
\* the command's exit code is
SyncedOptions(opts) ==
    IF "salt_minion_synced" \in DOMAIN opts
       THEN opts
       ELSE SetAttrOptions(opts, "salt_minion_synced", PyText("yes"))

\* entry of get_minion_ip_address up to the loop, sync_minion included
IpCall ==
    /\ ipc \in {"idle", "returned"}
    /\ mpc = "running"
    /\ ipcalls < MaxIpCalls
    /\ ipcalls' = ipcalls + 1
    /\ ipLast' = NoIpProbe
    /\ \E p \in BOOLEAN : private' = IF ipcalls = 0 THEN p ELSE private
    /\ \E sync \in BOOLEAN :
        CASE BootstrapMissing(options) ->
                /\ ipc' = "exited" /\ ipExit' = 1 /\ ipCmds' = 0
                /\ UNCHANGED <<attempts, ipRet, stateVars>>
          [] IpCached(options) ->
                /\ ipc' = "returned" /\ ipRet' = options["minion_ip_address"].v
                /\ ipCmds' = 0
                /\ UNCHANGED <<attempts, ipExit, stateVars>>
          [] sync /\ "salt_minion_synced" \notin DOMAIN options ->
                /\ ipc' = "loop" /\ attempts' = 1 /\ ipCmds' = 1
                /\ options' = SyncedOptions(options)
                /\ stateFile' = SaveStateFile(options', stateFile)
                /\ lastOp' = Outcome("save", stateFile)
                /\ opRead' = stateFile.kind
                /\ opKept' = KeptNames(ReadState(stateFile), ReadState(stateFile'), options')
                /\ opReplaced' = ReplacedNames(ReadState(stateFile), ReadState(stateFile'))
                /\ UNCHANGED <<ipRet, ipExit, mpc>>
          [] OTHER ->
                /\ ipc' = "loop" /\ attempts' = 1 /\ ipCmds' = 0
                /\ UNCHANGED <<ipRet, ipExit, stateVars>>
    /\ UNCHANGED <<ipNow, ipHist>>
    /\ UNCHANGED <<repeatVars, winVars, runVars, parVars, mainVars, verVars, sshVars, cloudVars, cloneVars, factVars, winexeVars, delVars, privVars, showVars, hashVars>>

\* one iteration of `while attempts <= 3`
IpAttempt ==
    /\ ipc = "loop"
    /\ attempts <= IpAttemptLimit
    /\ \E r \in IpRunResults :
        LET fate == IpFate(r, private, attempts)
        IN  /\ ipLast' = [attempt |-> attempts, exitcode |-> r.exitcode,
                          kind |-> IpKind(r, private)]
            /\ ipc' = IF fate = "retry" THEN "loop" ELSE fate
            /\ attempts' = IF fate = "retry" THEN attempts + 1 ELSE attempts
            /\ ipExit' = CASE fate # "exited" -> ipExit
                           [] r.exitcode # 0 -> r.exitcode
                           [] OTHER -> 1
            /\ IF fate = "returned"
                  THEN /\ ipRet' = IpParse(r.out, private).addr
                       /\ options' = SetAttrOptions(options, "minion_ip_address",
                                                    PyText(IpParse(r.out, private).addr))
                       /\ stateFile' = SaveStateFile(options', stateFile)
                       /\ lastOp' = Outcome("save", stateFile)
                       /\ opRead' = stateFile.kind
                       /\ opKept' = KeptNames(ReadState(stateFile), ReadState(stateFile'),
                                              options')
                       /\ opReplaced' = ReplacedNames(ReadState(stateFile),
                                                      ReadState(stateFile'))
                       /\ UNCHANGED mpc
                       /\ ipNow' =
                            IF HoldsNoResponse(ipRet')
                               THEN ipNow
                               ELSE [found |-> ipRet',
                                     stored |->
                                        /\ "minion_ip_address" \in DOMAIN ReadState(stateFile')
                                        /\ ReadState(stateFile')["minion_ip_address"]
                                                = PyText(ipRet')]
                  ELSE UNCHANGED <<ipRet, stateVars, ipNow>>
    /\ ipCmds' = ipCmds + 1
    /\ UNCHANGED <<ipcalls, private, ipHist>>
    /\ UNCHANGED <<repeatVars, winVars, runVars, parVars, mainVars, verVars, sshVars, cloudVars, cloneVars, factVars, winexeVars, delVars, privVars, showVars, hashVars>>

\* `attempts <= 3` is false: the function ends without a return statement
IpLoopOver ==
    /\ ipc = "loop"
    /\ attempts > IpAttemptLimit
    /\ ipc' = "returned"
    /\ ipRet' = "None"
    /\ UNCHANGED <<attempts, ipcalls, private, ipExit, ipLast, ipCmds, ipNow, ipHist>>
    /\ UNCHANGED <<repeatVars, stateVars, winVars, runVars, parVars, mainVars, verVars, sshVars, cloudVars, cloneVars, factVars, winexeVars, delVars, privVars, showVars, hashVars>>

\* a later invocation of main in the same workspace, without
\* --echo-parseable-output: parse_args
IpNewInvocation ==
    /\ ipc \in {"returned", "exited", "raised"}
    /\ invocations < MaxInvocations
    /\ invocations' = invocations + 1
    /\ options' = ParsedOptions(PyInt("80"), PyBool("False"))
    /\ mpc' = "parsed"
    /\ lastOp' = "parse"
    /\ opKept' = {} /\ opReplaced' = {} /\ opRead' = "none"
    /\ ipc' = "idle" /\ attempts' = 0 /\ ipcalls' = 0 /\ private' = FALSE
    /\ ipRet' = "" /\ ipExit' = -1 /\ ipLast' = NoIpProbe /\ ipCmds' = 0
    /\ ipNow' = NoDiscovery
    /\ ipHist' = IF ipNow.found # "" THEN ipNow ELSE ipHist
    /\ UNCHANGED stateFile
    /\ UNCHANGED <<ppc, flags, prepDone, pExit, stages, failed, resumed>>
    /\ UNCHANGED <<repeatVars, winVars, runVars, parVars, verVars, sshVars, cloudVars, cloneVars, factVars, winexeVars, delVars, privVars, showVars, hashVars>>

NextIp ==
    MainLoadState \/ MinionBootstrapped \/ IpCall \/ IpAttempt \/ IpLoopOver
        \/ IpNewInvocation

-----------------------------------------------------------------------------
(* run_command *)

\* what vt.Terminal(...) and proc.recv(4096) can do: succeed or raise
\* vt.TerminalException
VtOutcomes == {"ok", "TerminalException"}

\* the chunks of text proc.recv can return for a stream; <<>> stands for the
\* None and the '' it returns when the stream has nothing
ChunkTexts == {<<"a">>, <<"b", "c">>}
NoChunks == [stdout |-> <<>>, stderr |-> <<>>]

RunIdle ==
    /\ cpc = "idle" /\ return_output = FALSE /\ proc = "unbound"
    /\ proc_terminated = FALSE /\ alive = FALSE /\ exitstatus = -1
    /\ stdout_buffer = <<>> /\ stderr_buffer = <<>> /\ closes = 0
    /\ received = NoChunks /\ quiet = FALSE
    /\ terr = "none" /\ rcRet = "unset" /\ rcStatus = -1 /\ rcExc = "none"
    /\ rcalls = 0

\* the finally clause reads the local `proc`: UnboundLocalError when the
\* assignment `proc = vt.Terminal(...)` never completed
FinallyRaises(p) == p = "unbound"

\* run_command up to the loop: the buffers, then `proc = vt.Terminal(...)`;
\* when that raises, the except clause prints and the finally clause runs
RunCall ==
    /\ cpc \in {"idle", "returned"}
    /\ rcalls < MaxRunCalls
    /\ rcalls' = rcalls + 1
    /\ return_output' \in BOOLEAN
    /\ stdout_buffer' = <<>> /\ stderr_buffer' = <<>>
    /\ received' = NoChunks /\ quiet' = FALSE /\ exitstatus' = -1
    /\ proc_terminated' = FALSE
    /\ closes' = 0
    /\ rcStatus' = -1
    /\ \E spawn \in VtOutcomes :
        IF spawn = "ok"
           THEN /\ proc' = "open" /\ alive' = TRUE /\ terr' = "none"
                /\ cpc' = "poll" /\ rcRet' = "unset" /\ rcExc' = "none"
           ELSE /\ proc' = "unbound" /\ alive' = FALSE /\ terr' = "spawn"
                /\ IF FinallyRaises("unbound")
                      THEN cpc' = "raised" /\ rcRet' = "unset"
                           /\ rcExc' = "UnboundLocalError"
                      ELSE cpc' = "returned" /\ rcRet' = "None" /\ rcExc' = "none"
    /\ UNCHANGED <<repeatVars, stateVars, winVars, ipVars, parVars, mainVars, verVars, sshVars, cloudVars, cloneVars, factVars, winexeVars, delVars, privVars, showVars, hashVars>>

\* the exit status the child ended with
ExitStatuses == ExitCodes

\* `stdout_buffer += stdout or ''`
AccumulatePrepended(buffer, chunk) == chunk \o buffer
Accumulate(buffer, chunk) == buffer \o chunk

\* `not proc.isalive() and not stdout and not stderr`
NothingLeft(running, stdout, stderr) ==
    ~running /\ stdout = <<>> /\ stderr = <<>>

\* one iteration of `while True`: recv, accumulate, the two tests; the break
\* takes the call through the return statements and the finally clause, a
\* TerminalException through the except clause and the finally clause.  The
\* child ends, with some status, when it chooses to; each stream delivers at
\* most MaxChunks chunks.
RunPoll ==
    /\ cpc = "poll"
    /\ \E recv \in VtOutcomes, stdout \in ChunkTexts \cup {<<>>},
          stderr \in ChunkTexts \cup {<<>>}, dies \in BOOLEAN,
          status \in ExitStatuses :
        /\ stdout # <<>> => Len(received.stdout) < MaxChunks
        /\ stderr # <<>> => Len(received.stderr) < MaxChunks
        /\ alive' = (alive /\ ~dies)
        /\ exitstatus' = IF alive /\ dies THEN status ELSE exitstatus
        /\ ~(alive /\ dies) => status = 0
        /\ IF recv = "TerminalException"
              THEN /\ terr' = "recv"
                   /\ stdout = <<>> /\ stderr = <<>>
                   /\ UNCHANGED <<stdout_buffer, stderr_buffer, received, quiet,
                                  proc_terminated>>
                   /\ IF FinallyRaises(proc)
                         THEN /\ cpc' = "raised" /\ rcExc' = "UnboundLocalError"
                              /\ UNCHANGED <<proc, closes, rcRet, rcStatus>>
                         ELSE /\ cpc' = "returned" /\ rcRet' = "None"
                              /\ proc' = "closed" /\ closes' = closes + 1
                              /\ UNCHANGED <<rcStatus, rcExc>>
              ELSE /\ received' =
                        [stdout |-> IF stdout = <<>> THEN received.stdout
                                       ELSE Append(received.stdout, stdout),
                         stderr |-> IF stderr = <<>> THEN received.stderr
                                       ELSE Append(received.stderr, stderr)]
                   /\ stdout_buffer' = IF return_output
                                          THEN Accumulate(stdout_buffer, stdout)
                                          ELSE <<>>
                   /\ stderr_buffer' = IF return_output
                                          THEN Accumulate(stderr_buffer, stderr)
                                          ELSE <<>>
                   /\ UNCHANGED terr
                   /\ IF proc_terminated
                         THEN /\ ~dies
                              /\ UNCHANGED <<proc_terminated, quiet>>
                              /\ IF FinallyRaises(proc)
                                    THEN /\ cpc' = "raised"
                                         /\ rcExc' = "UnboundLocalError"
                                         /\ UNCHANGED <<proc, closes, rcRet, rcStatus>>
                                    ELSE /\ cpc' = "returned"
                                         /\ rcRet' = IF return_output THEN "tuple"
                                                                      ELSE "exitstatus"
                                         /\ rcStatus' = exitstatus'
                                         /\ proc' = "closed" /\ closes' = closes + 1
                                         /\ UNCHANGED rcExc
                         ELSE /\ proc_terminated' = NothingLeft(alive', stdout, stderr)
                              /\ quiet' = (quiet \/ (~alive' /\ stdout = <<>>
                                                        /\ stderr = <<>>))
                              /\ UNCHANGED <<cpc, proc, closes, rcRet, rcStatus, rcExc>>
    /\ UNCHANGED <<return_output, rcalls>>
    /\ UNCHANGED <<repeatVars, stateVars, winVars, ipVars, parVars, mainVars, verVars, sshVars, cloudVars, cloneVars, factVars, winexeVars, delVars, privVars, showVars, hashVars>>

NextRun == RunCall \/ RunPoll

-----------------------------------------------------------------------------
(* bootstrap_parallels_minion *)

\* tries=19, the default of _repeat
DefaultTries == 19
\* tries=10, as accept_key calls _repeat
AcceptKeyTries == 10

\* the tuple `(vm_cloned, vm_started, bootstrap_salt, minion_reloaded, accept_key)`
ParallelsSteps ==
    <<"vm_cloned", "vm_started", "bootstrap_salt", "minion_reloaded", "accept_key">>

\* what a step does: it returns an exit code, returns None (the value of a
\* run_command that met a transport error) or raises; n is the number of
\* run_command calls it made
Ret(c, n) == [raised |-> FALSE, none |-> FALSE, code |-> c, cmds |-> n]
RetNone(n) == [raised |-> FALSE, none |-> TRUE, code |-> 0, cmds |-> n]
Raise(n) == [raised |-> TRUE, none |-> FALSE, code |-> 0, cmds |-> n]

\* `x != 0` for what a step or a command returned
NotZero(r) == r.none \/ r.code # 0

\* `return run_command(cmd, options)` as the n-th command of a step
ReturnsCommand(n) == {Ret(c, n) : c \in ExitCodes} \cup {RetNone(n)}

\* `code = run_command(...); if code != 0: return code` for the commands
\* first+1 .. first+m of a step: the returns this chain makes
CheckedReturns(first, m) ==
    UNION {{r \in ReturnsCommand(first + j) : NotZero(r)} : j \in 1..m}

\* `if _repeat(cmd, key, tries) != 0: return 1` after `before` commands: the
\* numbers of commands made when the key was found
RepeatHits(before, n) == {before + k : k \in 1..n}

\* ... and its ways to leave the step: TypeError from `run_command(...)[0]` on
\* None at some probe, or `return 1` after n misses
RepeatLeaves(before, n) ==
    {Raise(before + k) : k \in 1..n} \cup {Ret(1, before + n)}

vm_cloned ==
    LET cloneFrom(b) ==
            RepeatLeaves(b + 1, DefaultTries)
                \cup {Ret(0, h) : h \in RepeatHits(b + 1, DefaultTries)}
    IN  {Raise(2)}
            \cup cloneFrom(2)
            \cup RepeatLeaves(3, DefaultTries)
            \cup UNION {cloneFrom(h) : h \in RepeatHits(3, DefaultTries)}

vm_started ==
    {Raise(1)}
        \cup RepeatLeaves(2, DefaultTries)
        \cup {Ret(0, h) : h \in RepeatHits(2, DefaultTries)}
        \cup {Ret(c, 1) : c \in ExitCodes}

bootstrap_salt ==
    LET afterHash(b) ==
            CheckedReturns(b, 4) \cup {Ret(0, b + 4)}
        afterPing(b) ==
            CheckedReturns(b, 1)
                \cup {Raise(b + 3)}
                \cup RepeatLeaves(b + 3, DefaultTries)
                \cup UNION {afterHash(h) : h \in RepeatHits(b + 3, DefaultTries)}
    IN  RepeatLeaves(0, DefaultTries)
            \cup UNION {afterPing(h) : h \in RepeatHits(0, DefaultTries)}

minion_reloaded ==
    {Raise(1)}
        \cup {Ret(c, 1) : c \in ExitCodes \ {0}}
        \cup ReturnsCommand(2)
        \cup CheckedReturns(1, 1)
        \cup ReturnsCommand(3)

accept_key ==
    RepeatLeaves(0, AcceptKeyTries)
        \cup UNION {ReturnsCommand(h + 1) : h \in RepeatHits(0, AcceptKeyTries)}

\* fcn(): what the step can do
StepOutcomes(name) ==
    CASE name = "vm_cloned" -> vm_cloned
      [] name = "vm_started" -> vm_started
      [] name = "bootstrap_salt" -> bootstrap_salt
      [] name = "minion_reloaded" -> minion_reloaded
      [] name = "accept_key" -> accept_key

\* `if exitcode != 0: return exitcode` in the for loop
StepAbortsNever(r) == FALSE
StepAborts(r) == NotZero(r)

NoResult == Ret(-1, 0)

ParallelsIdle ==
    /\ bpc = "idle" /\ fcn = 0 /\ stepsRun = <<>> /\ exitcode = NoResult
    /\ cmds = 0 /\ bRet = NoResult

\* main calls bootstrap_parallels_minion(options)
ParallelsCall ==
    /\ bpc = "idle"
    /\ mpc = "running"
    /\ bpc' = "loop"
    /\ fcn' = 1
    /\ UNCHANGED <<stepsRun, exitcode, cmds, bRet>>
    /\ UNCHANGED <<repeatVars, stateVars, winVars, ipVars, runVars, mainVars, verVars, sshVars, cloudVars, cloneVars, factVars, winexeVars, delVars, privVars, showVars, hashVars>>

\* one iteration of `for fcn in (...)`
ParallelsStep ==
    /\ bpc = "loop"
    /\ fcn <= Len(ParallelsSteps)
    /\ \E r \in StepOutcomes(ParallelsSteps[fcn]) :
        /\ stepsRun' = Append(stepsRun, ParallelsSteps[fcn])
        /\ cmds' = cmds + r.cmds
        /\ IF r.raised
              THEN /\ bpc' = "raised"
                   /\ UNCHANGED <<fcn, exitcode, bRet>>
              ELSE /\ exitcode' = [r EXCEPT !.cmds = 0]
                   /\ IF StepAborts(r)
                         THEN bpc' = "returned" /\ bRet' = exitcode' /\ fcn' = fcn
                         ELSE bpc' = "loop" /\ bRet' = bRet /\ fcn' = fcn + 1
    /\ UNCHANGED <<repeatVars, stateVars, winVars, ipVars, runVars, mainVars, verVars, sshVars, cloudVars, cloneVars, factVars, winexeVars, delVars, privVars, showVars, hashVars>>

\* after the loop: the bootstrap fact is set and 0 returned
ParallelsDone ==
    /\ bpc = "loop"
    /\ fcn > Len(ParallelsSteps)
    /\ options' = SetAttrOptions(options, "salt_minion_bootstrapped", PyText("yes"))
    /\ bpc' = "returned"
    /\ bRet' = Ret(0, 0)
    /\ UNCHANGED <<fcn, stepsRun, exitcode, cmds>>
    /\ UNCHANGED <<stateFile, lastOp, mpc, opKept, opReplaced, opRead>>
    /\ UNCHANGED <<repeatVars, winVars, ipVars, runVars, mainVars, verVars, sshVars, cloudVars, cloneVars, factVars, winexeVars, delVars, privVars, showVars, hashVars>>

NextParallels == MainLoadState \/ ParallelsCall \/ ParallelsStep \/ ParallelsDone

-----------------------------------------------------------------------------
(* main: the pipeline of one invocation, without --test-interactive,       *)
(* --delete-vm, --build-packages and --test-git-commit                     *)

\* the command-line flags that select the stages
DeployFlags == {"none", "cloud", "parallels"}

FlagSets ==
    [deploy : DeployFlags, windows : BOOLEAN, nprep : 0..MaxPrepSls,
     test : BOOLEAN, artifacts : BOOLEAN]

NoFlags ==
    [deploy |-> "none", windows |-> FALSE, nprep |-> 0, test |-> FALSE,
     artifacts |-> FALSE]

\* what a stage hands to main: an exit code or None
Code(c) == [none |-> FALSE, code |-> c]
NoCode == [none |-> TRUE, code |-> 0]
CommandResults == {Code(c) : c \in ExitCodes} \cup {NoCode}

\* `if exitcode != 0:` in main
MainAbortsOn(r) == r.none \/ r.code # 0

\* parser.exit(exitcode): sys.exit(status), and sys.exit(None) ends the
\* process with status 0
ParserExitStatus(r) == IF r.none THEN 0 ELSE r.code

NoFailure == [stage |-> "none", none |-> FALSE, code |-> 0]

MainIdle ==
    /\ ppc = "idle" /\ flags = NoFlags /\ prepDone = 0 /\ pExit = -1
    /\ stages = <<>> /\ failed = NoFailure /\ resumed = FALSE
    /\ invocations = 1

\* the stage main enters after `stage`, by its flags
StageAfter(stage, f) ==
    CASE stage = "start" /\ f.deploy # "none" -> "provision"
      [] stage = "provision" -> "verify"
      [] stage = "verify" -> "access"
      [] stage \in {"start", "access"} /\ f.nprep > 0 -> "prep"
      [] stage \in {"start", "access", "prep"} /\ f.test -> "test"
      [] stage \in {"start", "access", "prep", "test"} /\ f.artifacts -> "artifacts"
      [] OTHER -> "done"

\* the first stage that handed main a non-zero code or None
NoteFailure(stage, r) ==
    IF failed = NoFailure /\ MainAbortsOn(r)
       THEN [stage |-> stage, none |-> r.none, code |-> r.code]
       ELSE failed

\* the outcomes of get_minion_ip_address when it has to ask the minion: an
\* address, sys.exit with a non-zero status, or None after three replies that
\* do not parse
IpFetches == {"address", "exit", "None"}

\* test_ssh_root_login and get_minion_ip_address, as every remote command
\* starts with them: the facts they set, each followed by save_state.
\* `rootFails` is the result of the root login probe.
SyncStep(opts, file) ==
    IF "salt_minion_synced" \in DOMAIN opts
       THEN [opts |-> opts, file |-> file]
       ELSE [opts |-> SyncedOptions(opts),
             file |-> SaveStateFile(SyncedOptions(opts), file)]

IpStep(opts, file, fetch) ==
    CASE IpCached(opts) -> [opts |-> opts, file |-> file]
      [] fetch = "address" ->
            LET synced == SyncStep(opts, file)
                found == SetAttrOptions(synced.opts, "minion_ip_address", PyText("10.0.0.5"))
            IN  [opts |-> found, file |-> SaveStateFile(found, synced.file)]
      [] OTHER -> SyncStep(opts, file)

SudoStepNoSave(opts, file, windows, rootFails) ==
    IF windows \/ "require_sudo" \in DOMAIN opts
       THEN [opts |-> opts, file |-> file]
       ELSE [opts |-> SetAttrOptions(opts, "require_sudo",
                                     PyBool(IF rootFails THEN "True" ELSE "False")),
             file |-> file]
SudoStep(opts, file, windows, rootFails) ==
    IF windows \/ "require_sudo" \in DOMAIN opts
       THEN [opts |-> opts, file |-> file]
       ELSE LET probed == SetAttrOptions(opts, "require_sudo",
                              PyBool(IF rootFails THEN "True" ELSE "False"))
            IN  [opts |-> probed, file |-> SaveStateFile(probed, file)]

\* whether the prelude ends the process: sys.exit(1) without the bootstrap
\* fact, or the sys.exit of a failed address query
PreludeExits(opts, fetch) ==
    \/ "salt_minion_bootstrapped" \notin DOMAIN opts
    \/ ~IpCached(opts) /\ fetch = "exit"

Prelude(opts, file, windows, fetch, rootFails) ==
    CASE "salt_minion_bootstrapped" \notin DOMAIN opts -> [opts |-> opts, file |-> file]
      [] PreludeExits(opts, fetch) -> SyncStep(opts, file)
      [] OTHER ->
            LET ip == IpStep(opts, file, fetch)
            IN  SudoStep(ip.opts, ip.file, windows, rootFails)

\* the option set and the state file after a stage that ran save_state when
\* it set a fact
StateAfter(p) ==
    /\ options' = p.opts
    /\ stateFile' = p.file
    /\ lastOp' = IF p.opts # options THEN Outcome("save", stateFile) ELSE lastOp
    /\ opRead' = IF p.opts # options THEN stateFile.kind ELSE opRead
    /\ opKept' = IF p.opts # options
                    THEN KeptNames(ReadState(stateFile), ReadState(p.file), p.opts)
                    ELSE opKept
    /\ opReplaced' = IF p.opts # options
                        THEN ReplacedNames(ReadState(stateFile), ReadState(p.file))
                        ELSE opReplaced
    /\ UNCHANGED mpc

\* a later invocation of main in the same workspace: parse_args
MainNewInvocation ==
    /\ ppc \in {"done", "exited", "raised"}
    /\ invocations < MaxInvocations
    /\ invocations' = invocations + 1
    /\ \E echo \in {PyBool("True"), PyBool("False")} :
          options' = ParsedOptions(PyInt("80"), echo)
    /\ mpc' = "parsed"
    /\ lastOp' = "parse"
    /\ opKept' = {} /\ opReplaced' = {} /\ opRead' = "none"
    /\ ppc' = "idle" /\ flags' = NoFlags /\ prepDone' = 0 /\ pExit' = -1
    /\ stages' = <<>> /\ failed' = NoFailure /\ resumed' = FALSE
    /\ shown' = "no" /\ wiped' = FALSE
    /\ UNCHANGED stateFile
    /\ UNCHANGED <<repeatVars, winVars, ipVars, runVars, parVars, verVars, sshVars, cloudVars, cloneVars, factVars, winexeVars, delVars, privVars, hashVars>>

\* the status parser.error(message) ends the process with
ParserErrorStatus == 2

\* main after load_state, up to the first stage; with
\* --echo-parseable-output: parser.error without --vm-source, else save_state
\* and parser.exit(0)
MainStart ==
    /\ mpc = "running"
    /\ ppc = "idle"
    /\ \E f \in FlagSets, vm_source \in BOOLEAN :
        /\ flags' = f
        /\ resumed' = ("salt_minion_bootstrapped" \in DOMAIN options)
        /\ IF options["echo_parseable_output"] = PyBool("True")
              THEN IF vm_source
                      THEN /\ ppc' = "exited" /\ pExit' = 0
                           /\ stateFile' = SaveStateFile(options, stateFile)
                           /\ lastOp' = Outcome("save", stateFile)
                           /\ opRead' = stateFile.kind
                           /\ opKept' = KeptNames(ReadState(stateFile),
                                                  ReadState(stateFile'), options)
                           /\ opReplaced' = ReplacedNames(ReadState(stateFile),
                                                          ReadState(stateFile'))
                           /\ UNCHANGED <<options, mpc>>
                      ELSE /\ ppc' = "exited" /\ pExit' = ParserErrorStatus
                           /\ UNCHANGED stateVars
              ELSE /\ vm_source /\ ppc' = StageAfter("start", f)
                   /\ pExit' = IF StageAfter("start", f) = "done" THEN 0 ELSE pExit
                   /\ UNCHANGED stateVars
    /\ UNCHANGED <<prepDone, stages, failed, invocations>>
    /\ UNCHANGED <<repeatVars, winVars, ipVars, runVars, parVars, verVars, sshVars, cloudVars, cloneVars, factVars, winexeVars, delVars, privVars, showVars, hashVars>>

\* main goes on to the stage after `stage`, or returns with status 0
Advance(stage) ==
    /\ ppc' = StageAfter(stage, flags)
    /\ pExit' = IF StageAfter(stage, flags) = "done" THEN 0 ELSE pExit

\* bootstrap_cloud_minion / bootstrap_parallels_minion and the test of their
\* exit code: the provisioning command is run whatever the option set holds
MainProvision ==
    /\ ppc = "provision"
    /\ stages' = Append(stages, "provision")
    /\ \E r \in CommandResults, raises \in BOOLEAN, ipFound \in BOOLEAN :
        /\ raises => r = NoCode
        /\ flags.deploy = "cloud" /\ r.none => raises
        /\ ~(r = Code(0) /\ flags.deploy = "cloud") => ~ipFound
        /\ failed' = IF raises THEN failed ELSE NoteFailure("provision", r)
        /\ CASE raises ->
                  /\ ppc' = "raised" /\ pExit' = 1
                  /\ UNCHANGED options
             [] ~raises /\ MainAbortsOn(r) ->
                  /\ ppc' = "exited" /\ pExit' = ParserExitStatus(r)
                  /\ UNCHANGED options
             [] OTHER ->
                  /\ Advance("provision")
                  /\ options' =
                       LET booted == SetAttrOptions(options, "salt_minion_bootstrapped",
                                                    PyText("yes"))
                       IN  IF ipFound
                              THEN SetAttrOptions(booted, "minion_ip_address",
                                                  PyText("10.0.0.5"))
                              ELSE booted
    /\ UNCHANGED <<stateFile, lastOp, mpc, opKept, opReplaced, opRead>>
    /\ UNCHANGED <<flags, prepDone, resumed, invocations>>
    /\ UNCHANGED <<repeatVars, winVars, ipVars, runVars, parVars, verVars, sshVars, cloudVars, cloneVars, factVars, winexeVars, delVars, privVars, showVars, hashVars>>

\* check_win_minion_connected / check_bootstrapped_minion_version: they end
\* the process, raise, or return; check_win_minion_connected sets the address
\* when grains came back
MainVerify ==
    /\ ppc = "verify"
    /\ stages' = Append(stages, "verify")
    /\ \E end \in {"returns", "exits", "raises"}, c \in ExitCodes \ {0},
          ipFound \in BOOLEAN :
        /\ ~(end = "returns" /\ flags.windows) => ~ipFound
        /\ end # "exits" => c = 1
        /\ CASE end = "raises" -> ppc' = "raised" /\ pExit' = 1 /\ UNCHANGED options
             [] end = "exits" -> ppc' = "exited" /\ pExit' = c /\ UNCHANGED options
             [] OTHER ->
                  /\ Advance("verify")
                  /\ options' = IF ipFound
                                   THEN SetAttrOptions(options, "minion_ip_address",
                                                       PyText("10.0.0.5"))
                                   ELSE options
    /\ UNCHANGED <<stateFile, lastOp, mpc, opKept, opReplaced, opRead>>
    /\ UNCHANGED <<flags, prepDone, failed, resumed, invocations>>
    /\ UNCHANGED <<repeatVars, winVars, ipVars, runVars, parVars, verVars, sshVars, cloudVars, cloneVars, factVars, winexeVars, delVars, privVars, showVars, hashVars>>

\* prepare_winexe_access / prepare_ssh_access: main drops what they return;
\* generate_ssh_keypair ends the process when both ssh-keygen runs fail
MainAccess ==
    /\ ppc = "access"
    /\ stages' = Append(stages, "access")
    /\ \E r \in CommandResults, keygenFails \in BOOLEAN :
        /\ flags.windows => r = Code(0) /\ ~keygenFails
        /\ keygenFails => r = Code(0)
        /\ failed' = IF keygenFails THEN failed ELSE NoteFailure("access", r)
        /\ IF keygenFails
              THEN ppc' = "exited" /\ pExit' = 1
              ELSE Advance("access")
    /\ UNCHANGED <<flags, prepDone, resumed, invocations>>
    /\ UNCHANGED <<repeatVars, stateVars, winVars, ipVars, runVars, parVars, verVars, sshVars, cloudVars, cloneVars, factVars, winexeVars, delVars, privVars, showVars, hashVars>>

\* a remote command of main: the prelude, then the command itself unless the
\* prelude ended the process.  win_cmd always hands back an exit code.
RemoteResults(windows) == IF windows THEN {Code(c) : c \in ExitCodes} ELSE CommandResults

\* one iteration of `for sls in options.test_prep_sls`
MainPrep ==
    /\ ppc = "prep"
    /\ stages' = Append(stages, "prep")
    /\ \E fetch \in IpFetches, rootFails \in BOOLEAN, r \in RemoteResults(flags.windows) :
        /\ StateAfter(Prelude(options, stateFile, flags.windows, fetch, rootFails))
        /\ IF PreludeExits(options, fetch)
              THEN /\ r = Code(0) /\ ~rootFails
                   /\ ppc' = "exited" /\ pExit' = 1
                   /\ UNCHANGED <<prepDone, failed>>
              ELSE /\ failed' = NoteFailure("prep", r)
                   /\ IF MainAbortsOn(r)
                         THEN /\ ppc' = "exited" /\ pExit' = ParserExitStatus(r)
                              /\ UNCHANGED prepDone
                         ELSE /\ prepDone' = prepDone + 1
                              /\ IF prepDone' < flags.nprep
                                    THEN ppc' = "prep" /\ pExit' = pExit
                                    ELSE Advance("prep")
    /\ UNCHANGED <<flags, resumed, invocations>>
    /\ UNCHANGED <<repeatVars, winVars, ipVars, runVars, parVars, verVars, sshVars, cloudVars, cloneVars, factVars, winexeVars, delVars, privVars, showVars, hashVars>>

\* the test command; when it fails main leaves through parser.exit before it
\* reaches `if options.download_artifact:`
MainTest ==
    /\ ppc = "test"
    /\ stages' = Append(stages, "test")
    /\ \E fetch \in IpFetches, rootFails \in BOOLEAN, r \in RemoteResults(flags.windows) :
        /\ StateAfter(Prelude(options, stateFile, flags.windows, fetch, rootFails))
        /\ IF PreludeExits(options, fetch)
              THEN /\ r = Code(0) /\ ~rootFails
                   /\ ppc' = "exited" /\ pExit' = 1
                   /\ UNCHANGED failed
              ELSE /\ failed' = NoteFailure("test", r)
                   /\ IF MainAbortsOn(r)
                         THEN ppc' = "exited" /\ pExit' = ParserExitStatus(r)
                         ELSE Advance("test")
    /\ UNCHANGED <<flags, prepDone, resumed, invocations>>
    /\ UNCHANGED <<repeatVars, winVars, ipVars, runVars, parVars, verVars, sshVars, cloudVars, cloneVars, factVars, winexeVars, delVars, privVars, showVars, hashVars>>

\* download_artifacts_ssh / download_artifacts_smb, then main returns
MainArtifacts ==
    /\ ppc = "artifacts"
    /\ stages' = Append(stages, "artifacts")
    /\ \E fetch \in IpFetches, rootFails \in BOOLEAN :
        /\ StateAfter(Prelude(options, stateFile, flags.windows, fetch, rootFails))
        /\ IF PreludeExits(options, fetch)
              THEN ~rootFails /\ ppc' = "exited" /\ pExit' = 1
              ELSE Advance("artifacts")
    /\ UNCHANGED <<flags, prepDone, failed, resumed, invocations>>
    /\ UNCHANGED <<repeatVars, winVars, ipVars, runVars, parVars, verVars, sshVars, cloudVars, cloneVars, factVars, winexeVars, delVars, privVars, showVars, hashVars>>

ShowIdle == shown = "no" /\ wiped = FALSE

\* main with --show-default-command, right after parse_args and before
\* load_state: print_flush(' '.join(build_default_test_command(options))) and
\* sys.exit(0).  build_default_test_command starts with
\* get_minion_python_executable(options), which ends the process with
\* status 1 while the bootstrap fact is no attribute of the options.
MainShowDefaultCommand ==
    /\ mpc = "parsed"
    /\ ppc = "idle"
    /\ mpc' = "exited"
    /\ ppc' = "exited"
    /\ pExit' = IF BootstrapMissing(options) THEN 1 ELSE 0
    /\ shown' = IF BootstrapMissing(options) THEN "asked" ELSE "printed"
    /\ UNCHANGED wiped
    /\ UNCHANGED <<options, stateFile, lastOp, opKept, opReplaced, opRead>>
    /\ UNCHANGED <<flags, prepDone, stages, failed, resumed, invocations>>
    /\ UNCHANGED <<repeatVars, winVars, ipVars, runVars, parVars, verVars, sshVars, cloudVars, cloneVars, factVars, winexeVars, delVars, privVars, hashVars>>

\* the state file records a bootstrapped minion
RecordsBootstrap(file) == "salt_minion_bootstrapped" \in DOMAIN ReadState(file)

NextShow ==
    MainLoadState \/ MainNewInvocation \/ MainStart \/ MainProvision \/ MainVerify
        \/ MainAccess \/ MainPrep \/ MainTest \/ MainArtifacts \/ MainShowDefaultCommand

NextMain ==
    MainLoadState \/ MainNewInvocation \/ MainStart \/ MainProvision \/ MainVerify
        \/ MainAccess \/ MainPrep \/ MainTest \/ MainArtifacts

-----------------------------------------------------------------------------
(* check_cloned_reposiory_commit and check_bootstrapped_minion_version *)

\* the 7 of the slices `[7:]` and `[:7]`
CommitLen == 7

\* text[:7] and text[7:]
UpTo7(text) == SubSeq(text, 1, IF Len(text) < CommitLen THEN Len(text) ELSE CommitLen)
From7(text) == SubSeq(text, CommitLen + 1, Len(text))

\* the texts over two characters of at most n characters
RECURSIVE TextsUpTo(_)
TextsUpTo(n) ==
    IF n = 0 THEN {""}
             ELSE TextsUpTo(n - 1)
                    \cup {t \o c : t \in {u \in TextsUpTo(n - 1) : Len(u) = n - 1},
                                   c \in {"e", "f"}}

\* revisions: texts shorter than seven characters, and texts of seven
\* characters followed by up to MaxTailLen more
Revisions ==
    {"", "1234"}
        \cup {h \o t : h \in {"1234567", "1234568"}, t \in TextsUpTo(MaxTailLen)}

\* what test.version reports
VersionTexts == {"2016.3.0", "2016.3.0-12-g1234567", NoResponseText}

\* SALT_MINION_BOOTSTRAP_RELEASE, or options.bootstrap_salt_commit
WantedVersions == {"v2016.3.0", "2016.3.0", "1234567ef", "develop"}

\* SaltStackVersion.parse(text) raises ValueError
VersionParseRaises(text) == text = NoResponseText

\* `if bootstrap_minion_version.startswith('v'): ... [1:]`
StripV(text) ==
    IF Len(text) > 0 /\ SubSeq(text, 1, 1) = "v" THEN SubSeq(text, 2, Len(text)) ELSE text

\* os.environ.get('SALT_MINION_BOOTSTRAP_RELEASE', options.bootstrap_salt_commit[:7])
BootstrapMinionVersion(text, fromEnv) == StripV(IF fromEnv THEN text ELSE UpTo7(text))

\* json.loads(stdout.strip()) of the probe: blank output, no JSON document, a
\* document that is no object, an object without the minion, or an object
\* whose entry for the minion is a boolean or the reported string
VerifyDocs == {"blank", "invalid", "list", "empty object", "bool", "str"}

\* run_command(cmd, options, return_output=True): (stdout, stderr, exitcode),
\* or None after a TerminalException
VerifyRunResults ==
    [none : {FALSE}, doc : VerifyDocs, exitcode : ExitCodes]
        \cup [none : {TRUE}, doc : {"blank"}, exitcode : {0}]

NoVerifyProbe == [none |-> TRUE, doc |-> "none", exitcode |-> -1]

VerifyIdle ==
    /\ vpc = "idle" /\ vfn = "none" /\ vargs = [remote |-> "", expected |-> ""]
    /\ vprobe = NoVerifyProbe /\ vsaid = <<>> /\ vexit = -1 /\ vcmds = 0

\* the part of both functions between the probe and the try block: "raised"
\* (unpacking None), "exited" (sys.exit) or "go on"
VerifyFate(r) ==
    CASE r.none -> "raised"
      [] r.exitcode # 0 -> "exited"
      [] r.doc = "blank" -> "exited"
      [] OTHER -> "go on"

\* the status of that sys.exit
VerifyExitAlwaysOne(r) == 1
VerifyExit(r) == IF r.exitcode # 0 THEN r.exitcode ELSE 1

\* the test of check_cloned_reposiory_commit for the warning
CommitDiffers(remote, expected) == From7(remote) # From7(expected)

\* the try block of check_cloned_reposiory_commit: what is printed and
\* whether an exception leaves the function
CommitTry(r, remote, expected) ==
    CASE r.doc \in {"invalid", "list", "bool"} ->
            [pc |-> "returned", said |-> <<"Failed to load any JSON">>]
      [] r.doc = "empty object" -> [pc |-> "raised", said |-> <<>>]
      [] CommitDiffers(remote, expected) ->
            [pc |-> "returned", said |-> <<"is not the desired one">>]
      [] OTHER -> [pc |-> "returned", said |-> <<"Matches!">>]

\* the try block of check_bootstrapped_minion_version
VersionTry(r, remote, wanted) ==
    LET first == IF Contains(wanted, remote)
                    THEN <<"Matches!">>
                    ELSE <<"does not contain the desired commit">>
    IN  CASE r.doc \in {"invalid", "list", "bool"} ->
                [pc |-> "returned", said |-> <<"Failed to load any JSON">>]
          [] r.doc = "empty object" -> [pc |-> "raised", said |-> <<>>]
          [] VersionParseRaises(remote) ->
                [pc |-> "returned", said |-> Append(first, "Failed to load any JSON")]
          [] OTHER -> [pc |-> "returned", said |-> first]

\* main calls check_cloned_reposiory_commit(options): options.test_git_commit
\* is not None
CommitCall ==
    /\ vpc = "idle"
    /\ mpc = "running"
    /\ vfn' = "check_cloned_reposiory_commit"
    /\ vcmds' = 1
    /\ \E r \in VerifyRunResults, remote \in Revisions, expected \in Revisions :
        /\ vprobe' = r
        /\ vargs' = [remote |-> IF VerifyFate(r) = "go on" /\ r.doc = "str" THEN remote ELSE "",
                     expected |-> expected]
        /\ IF VerifyFate(r) # "go on"
              THEN /\ vpc' = VerifyFate(r)
                   /\ vsaid' = <<>>
                   /\ vexit' = IF VerifyFate(r) = "exited" THEN VerifyExit(r) ELSE vexit
              ELSE /\ vpc' = CommitTry(r, remote, expected).pc
                   /\ vsaid' = CommitTry(r, remote, expected).said
                   /\ vexit' = vexit
    /\ UNCHANGED <<repeatVars, stateVars, winVars, ipVars, runVars, parVars, mainVars, sshVars, cloudVars, cloneVars, factVars, winexeVars, delVars, privVars, showVars, hashVars>>

\* main calls check_bootstrapped_minion_version(options)
VersionCall ==
    /\ vpc = "idle"
    /\ mpc = "running"
    /\ vfn' = "check_bootstrapped_minion_version"
    /\ IF BootstrapMissing(options)
          THEN /\ vpc' = "exited" /\ vexit' = 1 /\ vcmds' = 0
               /\ UNCHANGED <<vargs, vprobe, vsaid>>
          ELSE /\ vcmds' = 1
               /\ \E r \in VerifyRunResults, remote \in VersionTexts,
                     text \in WantedVersions, fromEnv \in BOOLEAN :
                    LET wanted == BootstrapMinionVersion(text, fromEnv)
                    IN  /\ vprobe' = r
                        /\ vargs' = [remote |-> IF VerifyFate(r) = "go on" /\ r.doc = "str"
                                                  THEN remote ELSE "",
                                     expected |-> wanted]
                        /\ IF VerifyFate(r) # "go on"
                              THEN /\ vpc' = VerifyFate(r)
                                   /\ vsaid' = <<>>
                                   /\ vexit' = IF VerifyFate(r) = "exited"
                                                  THEN VerifyExit(r) ELSE vexit
                              ELSE /\ vpc' = VersionTry(r, remote, wanted).pc
                                   /\ vsaid' = VersionTry(r, remote, wanted).said
                                   /\ vexit' = vexit
    /\ options' =
         IF /\ vpc' = "returned"
            /\ vprobe'.doc = "str"
            /\ ~VersionParseRaises(vargs'.remote)
            THEN SetAttrOptions(options, "bootstrapped_salt_minion_version",
                                PyText(vargs'.remote))
            ELSE options
    /\ UNCHANGED <<stateFile, lastOp, mpc, opKept, opReplaced, opRead>>
    /\ UNCHANGED <<repeatVars, winVars, ipVars, runVars, parVars, mainVars, sshVars, cloudVars, cloneVars, factVars, winexeVars, delVars, privVars, showVars, hashVars>>

NextVerify == MainLoadState \/ MinionBootstrapped \/ CommitCall \/ VersionCall

-----------------------------------------------------------------------------
(* run_ssh_command, run_state_on_vm and test_ssh_root_login *)

\* text.startswith(prefix)
StartsWith(text, prefix) ==
    Len(text) >= Len(prefix) /\ SubSeq(text, 1, Len(prefix)) = prefix

\* ' '.join(tokens)
RECURSIVE JoinTokens(_)
JoinTokens(tokens) ==
    CASE Len(tokens) = 0 -> ""
      [] Len(tokens) = 1 -> tokens[1]
      [] OTHER -> tokens[1] \o " " \o JoinTokens(Tail(tokens))

\* the words remote commands are made of
CommandWords == {"sudo", "sudoedit", "ls"}

\* the remote commands given to run_ssh_command: the test command of the
\* user, or the list get_minion_python_executable / the coverage report builds
RemoteCommands == UNION {[1..n -> CommandWords] : n \in 1..MaxCommandWords}

\* the cmd list of run_state_on_vm: salt-call ..., with sudo inserted at
\* position 0 when require_sudo is set and true
StateCommand(sudo) ==
    IF sudo THEN <<"sudo", "salt-call", "state.sls">> ELSE <<"salt-call", "state.sls">>

\* getattr(options, 'require_sudo', False) / options.require_sudo
RequireSudo(opts) ==
    "require_sudo" \in DOMAIN opts /\ opts["require_sudo"] = PyBool("True")

\* `if options.require_sudo and not remote_command.startswith('sudo')`
PrependsSudoAlways(sudo, text) == sudo
PrependsSudo(sudo, text) == sudo /\ ~StartsWith(text, "sudo")

\* the remote command run_ssh_command hands to ssh
SshRemoteCommand(tokens, sudo, parallels) ==
    LET joined == JoinTokens(tokens)
        elevated == IF PrependsSudo(sudo, joined) THEN "sudo " \o joined ELSE joined
    IN  IF parallels THEN "source /etc/profile ; " \o elevated ELSE elevated

NoSshProbe == [ran |-> FALSE, none |-> FALSE, code |-> 0]

SshIdle ==
    /\ spc = "idle" /\ sVia = "none" /\ sGiven = <<>> /\ sSent = ""
    /\ sProbe = NoSshProbe /\ sProbes = 0 /\ scalls = 0

\* test_ssh_root_login runs its probe: require_sudo is no attribute yet
RootLoginProbed(opts) == "require_sudo" \notin DOMAIN opts

\* run_state_on_vm(options, sls) on a POSIX minion, or
\* run_ssh_command(options, remote_command) called directly:
\* test_ssh_root_login and get_minion_ip_address, then the command
SshCommand ==
    /\ spc \in {"idle", "sent"}
    /\ mpc = "running"
    /\ scalls < MaxSshCalls
    /\ scalls' = scalls + 1
    /\ \E via \in {"run_state_on_vm", "run_ssh_command"}, given \in RemoteCommands,
          fetch \in IpFetches, probe \in CommandResults, parallels \in BOOLEAN :
        LET after == Prelude(options, stateFile, FALSE, fetch, NotZero(probe))
            probed == ~PreludeExits(options, fetch) /\ RootLoginProbed(options)
            tokens == IF via = "run_state_on_vm"
                         THEN StateCommand(RequireSudo(after.opts))
                         ELSE given
        IN  /\ StateAfter(after)
            /\ probed \/ probe = Code(0)
            /\ sVia' = via
            /\ sProbe' = IF probed
                            THEN [ran |-> TRUE, none |-> probe.none, code |-> probe.code]
                            ELSE NoSshProbe
            /\ sProbes' = IF probed THEN sProbes + 1 ELSE sProbes
            /\ IF PreludeExits(options, fetch)
                  THEN /\ spc' = "exited"
                       /\ via = "run_ssh_command" /\ given = <<"ls">> /\ ~parallels
                       /\ UNCHANGED <<sGiven, sSent>>
                  ELSE /\ spc' = "sent"
                       /\ via = "run_state_on_vm" => given = <<"ls">>
                       /\ sGiven' = tokens
                       /\ sSent' = SshRemoteCommand(tokens, RequireSudo(after.opts), parallels)
    /\ UNCHANGED <<repeatVars, winVars, ipVars, runVars, parVars, mainVars, verVars, cloudVars, cloneVars, factVars, winexeVars, delVars, privVars, showVars, hashVars>>

\* a later invocation of main in the same workspace, without
\* --echo-parseable-output: parse_args
SshNewInvocation ==
    /\ spc \in {"sent", "exited"}
    /\ invocations < MaxInvocations
    /\ invocations' = invocations + 1
    /\ options' = ParsedOptions(PyInt("80"), PyBool("False"))
    /\ mpc' = "parsed"
    /\ lastOp' = "parse"
    /\ opKept' = {} /\ opReplaced' = {} /\ opRead' = "none"
    /\ spc' = "idle" /\ sVia' = "none" /\ sGiven' = <<>> /\ sSent' = ""
    /\ sProbe' = NoSshProbe /\ scalls' = 0
    /\ UNCHANGED <<stateFile, sProbes>>
    /\ UNCHANGED <<ppc, flags, prepDone, pExit, stages, failed, resumed>>
    /\ UNCHANGED <<repeatVars, winVars, ipVars, runVars, parVars, verVars, cloudVars, cloneVars, factVars, winexeVars, delVars, privVars, showVars, hashVars>>

NextSsh == MainLoadState \/ MinionBootstrapped \/ SshCommand \/ SshNewInvocation

-----------------------------------------------------------------------------
(* bootstrap_cloud_minion *)

\* the command line: -k for Windows, the script arguments otherwise, the VM
\* name last
CloudCommand(windows) ==
    <<"salt-cloud", "-l", "-p", "--out=yaml">>
        \o (IF windows THEN <<"-k">> ELSE <<"--script-args">>)
        \o <<"vm">>

\* yaml.load(clean_stdout): the text is blank (None), is no YAML document
\* (YAMLError), is a plain scalar, is a mapping without public_ips, or is a
\* mapping whose public_ips is null, a number, a list (empty, of one blank
\* string, of addresses) or a string (empty or an address)
CloudDocs ==
    {"blank", "invalid", "scalar", "no public_ips", "null", "number",
     "empty list", "list of blank", "list", "empty string", "string"}

\* the documents from which the try block gets no address
NoAddressDocs == CloudDocs \ {"list", "string"}

\* run_command(cmd, options, return_output=True): the exit code, whether a
\* line of stdout starts with the VM name, the document in the lines after
\* that line and the address it names; or None after a TerminalException
CloudRunResults ==
    [none : {FALSE}, exitcode : ExitCodes, vmLine : BOOLEAN, doc : CloudDocs,
     addr : {"10.0.0.5 10.0.0.6", "8.8.8.8"}]
        \cup [none : {TRUE}, exitcode : {0}, vmLine : {FALSE}, doc : {"blank"},
              addr : {"8.8.8.8"}]

NoCloudResult ==
    [none |-> TRUE, exitcode |-> -1, vmLine |-> FALSE, doc |-> "none", addr |-> ""]

\* '\n'.join(s_ret[start:]): without a line that starts with the VM name the
\* loop ends with start = len(s_ret) and nothing is left
CleanDoc(r) == IF r.vmLine THEN r.doc ELSE "blank"

\* text.split()[0]
FirstWord(text) ==
    LET spaces == {k \in 1..Len(text) : SubSeq(text, k, k) = " "}
    IN  IF spaces = {} THEN text
        ELSE SubSeq(text, 1, (CHOOSE k \in spaces : \A j \in spaces : k <= j) - 1)

\* the try block: "set" with the value of setattr(options,
\* 'minion_ip_address', ...), or "caught" (except Exception)
CloudExtractUncaught(doc, addr) ==
    CASE doc = "list" -> [fate |-> "set", value |-> FirstWord(addr)]
      [] doc = "string" -> [fate |-> "set", value |-> addr]
      [] doc = "empty string" -> [fate |-> "set", value |-> ""]
      [] OTHER -> [fate |-> "raised", value |-> ""]
CloudExtract(doc, addr) ==
    CASE doc = "list" -> [fate |-> "set", value |-> FirstWord(addr)]
      [] doc = "string" -> [fate |-> "set", value |-> addr]
      [] doc = "empty string" -> [fate |-> "set", value |-> ""]
      [] OTHER -> [fate |-> "caught", value |-> ""]

CloudIdle ==
    /\ kpc = "idle" /\ kCmd = <<>> /\ kIn = NoCloudResult /\ kCaught = FALSE
    /\ kRet = -1

\* main calls bootstrap_cloud_minion(options)
\* `if exitcode == 0:` before the fact is set
CloudSucceededAlways(code) == TRUE
CloudSucceeded(code) == code = 0

CloudBootstrap ==
    /\ kpc = "idle"
    /\ mpc = "running"
    /\ \E windows \in BOOLEAN, r \in CloudRunResults :
        LET x == CloudExtract(CleanDoc(r), r.addr)
            booted == SetAttrOptions(options, "salt_minion_bootstrapped", PyText("yes"))
        IN  /\ kCmd' = CloudCommand(windows)
            /\ kIn' = r
            /\ CASE r.none ->
                    /\ kpc' = "raised"
                    /\ UNCHANGED <<options, kCaught, kRet>>
                 [] ~CloudSucceeded(r.exitcode) ->
                    /\ kpc' = "returned" /\ kRet' = r.exitcode
                    /\ UNCHANGED <<options, kCaught>>
                 [] OTHER ->
                    /\ kpc' = IF x.fate \in {"set", "caught"} THEN "returned" ELSE "raised"
                    /\ kRet' = IF x.fate \in {"set", "caught"} THEN r.exitcode ELSE kRet
                    /\ kCaught' = (x.fate = "caught")
                    /\ options' = IF x.fate = "set"
                                     THEN SetAttrOptions(booted, "minion_ip_address",
                                                         PyText(x.value))
                                     ELSE booted
    /\ UNCHANGED <<stateFile, lastOp, mpc, opKept, opReplaced, opRead>>
    /\ UNCHANGED <<repeatVars, winVars, ipVars, runVars, parVars, mainVars, verVars, sshVars, cloneVars, factVars, winexeVars, delVars, privVars, showVars, hashVars>>

NextCloud == MainLoadState \/ CloudBootstrap

-----------------------------------------------------------------------------
(* bootstrap_parallels_minion.vm_cloned, command by command *)

\* what parallels.status and parallels.exists print
StatusOutputs == {"running", "stopped", "suspended", "vm: running"}
ExistsOutputs == {"True", "False", ""}

\* run_command(cmd, options, return_output=True)[0]: the captured stdout, or
\* TypeError on the None a TerminalException leaves
CloneRunResults(outputs) ==
    [none : {FALSE}, stdout : outputs] \cup [none : {TRUE}, stdout : {""}]

CloneIdle ==
    /\ gpc = "idle" /\ gTries = 0 /\ gLog = <<>> /\ gSource = "" /\ gLast = ""
    /\ gRet = -1

\* `if 'running' in source_state:`
SourceRunning(text) == Contains("running", text)

\* `if _repeat(status, 'stopped') != 0: return 1`: whether vm_cloned goes on
\* to the clone command after the poll for stopped
ClonesAfterStopPollAlways(found) == TRUE
ClonesAfterStopPoll(found) == found

\* vm_cloned up to its first poll: revert_snapshot, status, and stop or clone
VmClonedCall ==
    /\ gpc = "idle"
    /\ mpc = "running"
    /\ \E r \in CloneRunResults(StatusOutputs) :
        IF r.none
           THEN /\ gpc' = "raised"
                /\ gLog' = <<"revert_snapshot", "status">>
                /\ UNCHANGED gSource
           ELSE /\ gSource' = r.stdout
                /\ gpc' = IF SourceRunning(r.stdout) THEN "stop poll" ELSE "clone poll"
                /\ gLog' = <<"revert_snapshot", "status">>
                             \o (IF SourceRunning(r.stdout) THEN <<"stop">> ELSE <<"clone">>)
    /\ UNCHANGED <<gTries, gLast, gRet>>
    /\ UNCHANGED <<repeatVars, stateVars, winVars, ipVars, runVars, parVars, mainVars, verVars, sshVars, cloudVars, factVars, winexeVars, delVars, privVars, showVars, hashVars>>

\* one iteration of _repeat(status, 'stopped'); the poll ends when the key is
\* found or with the last try, and the clone command or `return 1` follows
VmStopPoll ==
    /\ gpc = "stop poll"
    /\ RepeatLoopCond(gTries, DefaultTries)
    /\ \E r \in CloneRunResults(StatusOutputs) :
        LET found == Contains("stopped", r.stdout)
            over == found \/ ~RepeatLoopCond(gTries + 1, DefaultTries)
        IN  /\ gLast' = r.stdout
            /\ CASE r.none ->
                    /\ gpc' = "raised"
                    /\ UNCHANGED <<gTries, gLog, gRet>>
                 [] ~over ->
                    /\ gpc' = "stop poll"
                    /\ gTries' = gTries + 1
                    /\ UNCHANGED <<gLog, gRet>>
                 [] OTHER ->
                    /\ gTries' = IF found THEN 0 ELSE gTries + 1
                    /\ IF ClonesAfterStopPoll(found)
                          THEN /\ gpc' = "clone poll"
                               /\ gLog' = gLog \o (IF found THEN <<"stopped">> ELSE <<>>)
                                               \o <<"clone">>
                               /\ UNCHANGED gRet
                          ELSE /\ gpc' = "returned" /\ gRet' = 1
                               /\ UNCHANGED gLog
    /\ UNCHANGED gSource
    /\ UNCHANGED <<repeatVars, stateVars, winVars, ipVars, runVars, parVars, mainVars, verVars, sshVars, cloudVars, factVars, winexeVars, delVars, privVars, showVars, hashVars>>

\* one iteration of _repeat(exists, 'True')
VmClonePoll ==
    /\ gpc = "clone poll"
    /\ RepeatLoopCond(gTries, DefaultTries)
    /\ \E r \in CloneRunResults(ExistsOutputs) :
        /\ gLast' = r.stdout
        /\ CASE r.none ->
                /\ gpc' = "raised"
                /\ UNCHANGED <<gTries, gLog, gRet>>
             [] Contains("True", r.stdout) ->
                /\ gpc' = "returned" /\ gRet' = 0
                /\ gLog' = Append(gLog, "exists")
                /\ UNCHANGED gTries
             [] OTHER ->
                /\ gpc' = "clone poll"
                /\ gTries' = gTries + 1
                /\ UNCHANGED <<gLog, gRet>>
    /\ UNCHANGED gSource
    /\ UNCHANGED <<repeatVars, stateVars, winVars, ipVars, runVars, parVars, mainVars, verVars, sshVars, cloudVars, factVars, winexeVars, delVars, privVars, showVars, hashVars>>

\* _repeat(exists, 'True') returns 1 after its last try
VmClonePollOver ==
    /\ gpc = "clone poll"
    /\ ~RepeatLoopCond(gTries, DefaultTries)
    /\ gpc' = "returned"
    /\ gRet' = 1
    /\ UNCHANGED <<gTries, gLog, gSource, gLast>>
    /\ UNCHANGED <<repeatVars, stateVars, winVars, ipVars, runVars, parVars, mainVars, verVars, sshVars, cloudVars, factVars, winexeVars, delVars, privVars, showVars, hashVars>>

NextClone ==
    MainLoadState \/ VmClonedCall \/ VmStopPoll \/ VmClonePoll \/ VmClonePollOver

-----------------------------------------------------------------------------
(* sync_minion and get_minion_python_executable *)

FactIdle ==
    /\ fpc = "idle" /\ fName = "none" /\ fCmds = 0 /\ fExit = -1 /\ fRet = "none"

\* the text of an exit code or of None
CodeText(r) ==
    CASE r.none -> "None"
      [] r.code = 0 -> "0"
      [] r.code = 1 -> "1"
      [] OTHER -> "2"

\* a caller calls sync_minion(options)
SyncCall ==
    /\ fpc = "idle"
    /\ mpc = "running"
    /\ fName' = "sync_minion"
    /\ \E r \in CommandResults :
        CASE BootstrapMissing(options) ->
                /\ r = NoCode
                /\ fpc' = "exited" /\ fExit' = 1 /\ fCmds' = 0
                /\ UNCHANGED <<fRet, stateVars>>
          [] "salt_minion_synced" \in DOMAIN options ->
                /\ r = NoCode
                /\ fpc' = "returned" /\ fRet' = "None" /\ fCmds' = 0
                /\ UNCHANGED <<fExit, stateVars>>
          [] OTHER ->
                /\ fpc' = "returned" /\ fRet' = CodeText(r) /\ fCmds' = 1
                /\ StateAfter(SyncStep(options, stateFile))
                /\ UNCHANGED fExit
    /\ UNCHANGED <<repeatVars, winVars, ipVars, runVars, parVars, mainVars, verVars, sshVars, cloudVars, cloneVars, winexeVars, delVars, privVars, showVars, hashVars>>

\* the interpreter get_minion_python_executable settles on without asking
\* the minion (Windows, Parallels or --test-with-python3), "" when it asks
FixedExecutables ==
    {"", "C:\\PROGRA~1\\Python35\\python.exe", "C:\\Python27\\python.exe",
     "/usr/local/bin/python3", "/usr/bin/python3"}

\* the grains.get pythonexecutable probe: None, or the exit code and what
\* json.loads(stdout.strip())[options.vm_name] gives
PythonProbes ==
    [none : {FALSE}, exitcode : ExitCodes,
     doc : {"blank", "invalid", "empty object", "str"}]
        \cup [none : {TRUE}, exitcode : {0}, doc : {"blank"}]

\* where the probe leaves the call: "raised" is the TypeError of unpacking
\* None, the KeyError, or the UnboundLocalError after the except branch
PythonFate(r) ==
    CASE r.none -> "raised"
      [] r.exitcode # 0 -> "exited"
      [] r.doc = "blank" -> "exited"
      [] r.doc \in {"invalid", "empty object"} -> "raised"
      [] OTHER -> "returned"

\* a caller calls get_minion_python_executable(options)
PythonCall ==
    /\ fpc = "idle"
    /\ mpc = "running"
    /\ fName' = "get_minion_python_executable"
    /\ \E fixed \in FixedExecutables, r \in PythonProbes :
        LET synced == SyncStep(options, stateFile)
            synccmds == IF "salt_minion_synced" \in DOMAIN options THEN 0 ELSE 1
            path == IF fixed = "" THEN "/usr/bin/python" ELSE fixed
            found == SetAttrOptions(synced.opts, "minion_python_executable", PyText(path))
            fate == IF fixed = "" THEN PythonFate(r) ELSE "returned"
        IN  CASE BootstrapMissing(options) ->
                    /\ fixed = "" /\ r.none
                    /\ fpc' = "exited" /\ fExit' = 1 /\ fCmds' = 0
                    /\ UNCHANGED <<fRet, stateVars>>
              [] "minion_python_executable" \in DOMAIN options ->
                    /\ fixed = "" /\ r.none
                    /\ fpc' = "returned" /\ fCmds' = 0
                    /\ fRet' = options["minion_python_executable"].v
                    /\ UNCHANGED <<fExit, stateVars>>
              [] OTHER ->
                    /\ fixed # "" => r.none
                    /\ fpc' = fate
                    /\ fCmds' = synccmds + (IF fixed = "" THEN 1 ELSE 0)
                    /\ fExit' = CASE fate # "exited" -> fExit
                                  [] r.exitcode # 0 -> r.exitcode
                                  [] OTHER -> 1
                    /\ fRet' = IF fate = "returned" THEN path ELSE fRet
                    /\ IF fate = "returned"
                          THEN StateAfter([opts |-> found,
                                           file |-> SaveStateFile(found, synced.file)])
                          ELSE StateAfter(synced)
    /\ UNCHANGED <<repeatVars, winVars, ipVars, runVars, parVars, mainVars, verVars, sshVars, cloudVars, cloneVars, winexeVars, delVars, privVars, showVars, hashVars>>

\* the call has returned and the run goes on to its next step
FactReturn ==
    /\ fpc = "returned"
    /\ fpc' = "idle" /\ fName' = "none" /\ fCmds' = 0 /\ fRet' = "none"
    /\ UNCHANGED fExit
    /\ UNCHANGED <<repeatVars, stateVars, winVars, ipVars, runVars, parVars, mainVars, verVars, sshVars, cloudVars, cloneVars, winexeVars, delVars, privVars, showVars, hashVars>>

\* the functions that need the bootstrap fact, each from its first statement
NextFacts ==
    MainLoadState \/ MinionBootstrapped \/ SyncCall \/ PythonCall \/ FactReturn
        \/ IpCall \/ WinCall \/ VersionCall

-----------------------------------------------------------------------------
(* run_winexe_command and prepare_winexe_access *)

MaxWinexeWords == 2
MaxWinexeCalls == 2

\* the text written where the password would be
Placeholder == "XXX-REDACTED-XXX"

\* win_username / win_password of the provider's section of /etc/salt/cloud
WinUsernames == {"admin", "root"}
WinPasswords == {"", "pw", "s3"}

\* the cloud configuration: the two values, or a KeyError on the way to them
NoConfig == [found |-> FALSE, user |-> "", password |-> ""]
CloudConfigs == [found : {TRUE}, user : WinUsernames, password : WinPasswords] \cup {NoConfig}

\* options.win_username and options.win_password, None before they are set
NoCreds == [set |-> FALSE, user |-> "", password |-> ""]

\* `getattr(options, 'win_username', None) and getattr(options, 'win_password', None)`
CredsCached(creds) == creds.set /\ creds.user # "" /\ creds.password # ""

\* the remote commands: a string, or a list that is joined with spaces
WinexeWords == {"dir", "echo", "pw"}
WinexeRemotes ==
    [list : {TRUE}, words : UNION {[1..n -> WinexeWords] : n \in 1..MaxWinexeWords}]
        \cup [list : {FALSE}, words : {<<"dir">>, <<"echo pw">>}]

\* `if isinstance(remote_command, list): remote_command = ' '.join(remote_command)`
RemoteText(remote) == IF remote.list THEN JoinTokens(remote.words) ELSE remote.words[1]

\* "-U '{0}%{1}' //{2}".format(win_username, <secret>, host)
WinexeCredentials(user, secret, host) == "-U '" \o user \o "%" \o secret \o "' //" \o host

\* the secret written into logging_credentials
LoggedSecretUnredacted(password) == password
LoggedSecret(password) == Placeholder

\* 'winexe {0} \'cmd /c "{1}"\''.format(credentials, remote_command)
WinexeCommandLine(credentials, text) ==
    "winexe " \o credentials \o " 'cmd /c \"" \o text \o "\"'"

RunningWinexe(logging_cmd) == "Running WinEXE command: " \o logging_cmd

\* the call gets as far as win_cmd: get_minion_ip_address did not end the
\* process and the credentials were found
WinexeSends(opts, fetch, creds, cfg) ==
    ~PreludeExits(opts, fetch) /\ (CredsCached(creds) \/ cfg.found)

WinexeIdle ==
    /\ xpc = "idle" /\ xSaid = <<>> /\ xCmd = "" /\ xLog = ""
    /\ xIn = [user |-> "", password |-> "", host |-> "", text |-> ""]
    /\ xCreds = NoCreds /\ xRet = NoCode /\ xcalls = 0

\* run_winexe_command(options, remote_command), as run_state_on_vm and main
\* call it for a Windows minion
WinexeCall ==
    /\ xpc = "idle"
    /\ mpc = "running"
    /\ xcalls < MaxWinexeCalls
    /\ xcalls' = xcalls + 1
    /\ \E fetch \in IpFetches,
          cfg \in IF CredsCached(xCreds) THEN {NoConfig} ELSE CloudConfigs :
       \E winrepo \in IF cfg.found THEN BOOLEAN ELSE {FALSE},
          remote \in IF WinexeSends(options, fetch, xCreds, cfg)
                        THEN WinexeRemotes ELSE {[list |-> FALSE, words |-> <<"dir">>]},
          r \in IF WinexeSends(options, fetch, xCreds, cfg)
                   THEN CommandResults ELSE {NoCode} :
        LET after == Prelude(options, stateFile, TRUE, fetch, FALSE)
            host == IF IpCached(after.opts) THEN after.opts["minion_ip_address"].v ELSE "None"
            cached == CredsCached(xCreds)
            user == IF cached THEN xCreds.user ELSE cfg.user
            password == IF cached THEN xCreds.password ELSE cfg.password
            text == RemoteText(remote)
            logging_cmd == WinexeCommandLine(
                               WinexeCredentials(user, LoggedSecret(password), host), text)
            updated == IF ~cached /\ winrepo THEN <<"Update winrepo.">> ELSE <<>>
        IN  /\ StateAfter(after)
            /\ CASE PreludeExits(options, fetch) ->
                        /\ xpc' = "exited"
                        /\ ~cfg.found
                        /\ UNCHANGED <<xIn, xSaid, xCmd, xLog, xCreds, xRet>>
                 [] ~cached /\ ~cfg.found ->
                        /\ xpc' = "raised"
                        /\ UNCHANGED <<xIn, xSaid, xCmd, xLog, xCreds, xRet>>
                 [] OTHER ->
                        /\ xpc' = "sent"
                        /\ xCreds' = [set |-> TRUE, user |-> user, password |-> password]
                        /\ xIn' = [user |-> user, password |-> password,
                                   host |-> host, text |-> text]
                        /\ xCmd' = WinexeCommandLine(
                                       WinexeCredentials(user, password, host), text)
                        /\ xLog' = logging_cmd
                        /\ xSaid' = updated \o <<RunningWinexe(logging_cmd)>>
                        /\ xRet' = r
    /\ UNCHANGED <<repeatVars, winVars, ipVars, runVars, parVars, mainVars, verVars, sshVars, cloudVars, cloneVars, factVars, delVars, privVars, showVars, hashVars>>

\* win_cmd has returned and the caller goes on; the credentials stay in options
WinexeReturn ==
    /\ xpc = "sent"
    /\ xpc' = "idle" /\ xSaid' = <<>> /\ xCmd' = "" /\ xLog' = ""
    /\ xIn' = [user |-> "", password |-> "", host |-> "", text |-> ""]
    /\ xRet' = NoCode
    /\ UNCHANGED <<xCreds, xcalls>>
    /\ UNCHANGED <<repeatVars, stateVars, winVars, ipVars, runVars, parVars, mainVars, verVars, sshVars, cloudVars, cloneVars, factVars, delVars, privVars, showVars, hashVars>>

NextWinexe == MainLoadState \/ MinionBootstrapped \/ WinexeCall \/ WinexeReturn

-----------------------------------------------------------------------------
(* delete_parallels_vm *)

DeleteIdle == dpc = "idle" /\ dCodes = <<>> /\ dRet = -1

\* bool(x) of what run_command returned: None and 0 are false
Truthy(r) == ~r.none /\ r.code # 0

\* `if not all([stop_retcode, delete_retcode, key_retcode]): return 0` else 1
DeleteReturns(codes) ==
    IF ~(\A n \in 1..Len(codes) : Truthy(codes[n])) THEN 0 ELSE 1

\* main, --delete-vm with --parallels-deploy: delete_parallels_vm is entered
DeleteCall ==
    /\ dpc = "idle"
    /\ dpc' = "stop"
    /\ UNCHANGED <<dCodes, dRet>>
    /\ UNCHANGED <<repeatVars, stateVars, winVars, ipVars, runVars, parVars, mainVars, verVars, sshVars, cloudVars, cloneVars, factVars, winexeVars, privVars, showVars, hashVars>>

\* the next of the three commands: parallels.stop, parallels.delete, salt-key -yd
DeleteCommand ==
    /\ dpc \in {"stop", "delete", "key"}
    /\ \E r \in CommandResults : dCodes' = Append(dCodes, r)
    /\ dpc' = CASE dpc = "stop" -> "delete"
                [] dpc = "delete" -> "key"
                [] OTHER -> "return"
    /\ UNCHANGED dRet
    /\ UNCHANGED <<repeatVars, stateVars, winVars, ipVars, runVars, parVars, mainVars, verVars, sshVars, cloudVars, cloneVars, factVars, winexeVars, privVars, showVars, hashVars>>

\* the return statement, and parser.exit with its value
DeleteReturn ==
    /\ dpc = "return"
    /\ dRet' = DeleteReturns(dCodes)
    /\ dpc' = "exited"
    /\ UNCHANGED dCodes
    /\ UNCHANGED <<repeatVars, stateVars, winVars, ipVars, runVars, parVars, mainVars, verVars, sshVars, cloudVars, cloneVars, factVars, winexeVars, privVars, showVars, hashVars>>

NextDelete == DeleteCall \/ DeleteCommand \/ DeleteReturn

-----------------------------------------------------------------------------
(* find_private_addr over lists of addresses *)

MaxAddrs == 3

\* the lists of at most MaxAddrs addresses a minion can report
AddressLists == UNION {[1..n -> ReportedAddresses] : n \in 0..MaxAddrs}

PrivateIdle == qpc = "idle" /\ qList = <<>> /\ qRet = ""

\* get_minion_ip_address with --ssh-private-address hands the minion's list of
\* addresses to find_private_addr
FindPrivateCall ==
    /\ qpc = "idle"
    /\ \E addrs \in AddressLists :
        /\ qList' = addrs
        /\ qRet' = find_private_addr([doc |-> "object", kind |-> "list", items |-> addrs])
    /\ qpc' = "returned"
    /\ UNCHANGED <<repeatVars, stateVars, winVars, ipVars, runVars, parVars, mainVars, verVars, sshVars, cloudVars, cloneVars, factVars, winexeVars, delVars, showVars, hashVars>>

NextPrivate == FindPrivateCall

-----------------------------------------------------------------------------
(* bootstrap_parallels_minion.bootstrap_salt: checksum poll and installer *)

HashIdle ==
    /\ hpc = "idle" /\ hash_code = <<>> /\ hTries = 0 /\ hLast = <<>>
    /\ hInstalled = FALSE /\ hRet = -1

\* bootstrap_salt up to the poll: the ping poll, the checksum download (its
\* exit code is tested), the package download (not tested) and
\* `hash_code = run_command(hash_wrap, options, return_output=True)[0]`
SaltPackageFetched ==
    /\ hpc = "idle"
    /\ \E before \in {"ping missed", "download failed", "ok"},
          c \in ExitCodes \ {0}, r \in RunCommandResults :
        CASE before = "ping missed" ->
                /\ c = 1 /\ r.none
                /\ hpc' = "returned" /\ hRet' = 1
                /\ UNCHANGED hash_code
          [] before = "download failed" ->
                /\ r.none
                /\ hpc' = "returned" /\ hRet' = c
                /\ UNCHANGED hash_code
          [] OTHER ->
                /\ c = 1
                /\ hpc' = IF r.none THEN "raised" ELSE "poll"
                /\ hash_code' = r.stdout
                /\ UNCHANGED hRet
    /\ UNCHANGED <<hTries, hLast, hInstalled>>
    /\ UNCHANGED <<repeatVars, stateVars, winVars, ipVars, runVars, parVars, mainVars, verVars, sshVars, cloudVars, cloneVars, factVars, winexeVars, delVars, privVars, showVars>>

\* `hash_code in std_out`, the test of the poll
ChecksumFound(expected, std) == Contains(expected, std)

\* one iteration of `_repeat(get_hash_wrap, hash_code)`
ChecksumPoll ==
    /\ hpc = "poll"
    /\ RepeatLoopCond(hTries, DefaultTries)
    /\ \E r \in RunCommandResults :
        /\ hLast' = r.stdout
        /\ hpc' = CASE r.none -> "raised"
                    [] ChecksumFound(hash_code, r.stdout) -> "install"
                    [] OTHER -> "poll"
        /\ hTries' = IF ~r.none /\ ~ChecksumFound(hash_code, r.stdout)
                        THEN hTries + 1 ELSE hTries
    /\ UNCHANGED <<hash_code, hInstalled, hRet>>
    /\ UNCHANGED <<repeatVars, stateVars, winVars, ipVars, runVars, parVars, mainVars, verVars, sshVars, cloudVars, cloneVars, factVars, winexeVars, delVars, privVars, showVars>>

\* the poll found no match in DefaultTries probes: `return 1`
ChecksumPollOver ==
    /\ hpc = "poll"
    /\ ~RepeatLoopCond(hTries, DefaultTries)
    /\ hpc' = "returned" /\ hRet' = 1
    /\ UNCHANGED <<hash_code, hTries, hLast, hInstalled>>
    /\ UNCHANGED <<repeatVars, stateVars, winVars, ipVars, runVars, parVars, mainVars, verVars, sshVars, cloudVars, cloneVars, factVars, winexeVars, delVars, privVars, showVars>>

\* the installer command, then psutil and the two configuration commands,
\* each `code = run_command(...); if code != 0: return code`, and `return 0`
InstallPackage ==
    /\ hpc = "install"
    /\ hInstalled' = TRUE
    /\ hpc' = "returned"
    /\ \E c \in ExitCodes : hRet' = c
    /\ UNCHANGED <<hash_code, hTries, hLast>>
    /\ UNCHANGED <<repeatVars, stateVars, winVars, ipVars, runVars, parVars, mainVars, verVars, sshVars, cloudVars, cloneVars, factVars, winexeVars, delVars, privVars, showVars>>

NextHash == SaltPackageFetched \/ ChecksumPoll \/ ChecksumPollOver \/ InstallPackage

-----------------------------------------------------------------------------
\* main's provisioning: bootstrap_cloud_minion or bootstrap_parallels_minion
NextBootstrap ==
    MainLoadState \/ CloudBootstrap \/ ParallelsCall \/ ParallelsStep \/ ParallelsDone

-----------------------------------------------------------------------------
Init ==
    /\ RepeatIdle /\ StateIdle /\ WinIdle /\ IpIdle /\ RunIdle /\ ParallelsIdle
    /\ MainIdle /\ VerifyIdle /\ SshIdle /\ CloudIdle /\ CloneIdle /\ FactIdle
    /\ WinexeIdle /\ DeleteIdle /\ PrivateIdle /\ ShowIdle
    /\ HashIdle

SpecRepeat == Init /\ [][NextRepeat]_vars
SpecState == Init /\ [][NextState]_vars
SpecWin == Init /\ [][NextWin]_vars
SpecIp == Init /\ [][NextIp]_vars
SpecRun == Init /\ [][NextRun]_vars
\* the loop of run_command is one thread that sleeps and polls again: an
\* iteration that can be made is made
SpecRunFair == Init /\ [][NextRun]_vars /\ WF_vars(RunPoll)
SpecParallels == Init /\ [][NextParallels]_vars
SpecMain == Init /\ [][NextMain]_vars
SpecVerify == Init /\ [][NextVerify]_vars
SpecSsh == Init /\ [][NextSsh]_vars
SpecCloud == Init /\ [][NextCloud]_vars
SpecClone == Init /\ [][NextClone]_vars
SpecFacts == Init /\ [][NextFacts]_vars
SpecWinexe == Init /\ [][NextWinexe]_vars
SpecDelete == Init /\ [][NextDelete]_vars
SpecPrivate == Init /\ [][NextPrivate]_vars
SpecShow == Init /\ [][NextShow]_vars
SpecBootstrap == Init /\ [][NextBootstrap]_vars
SpecHash == Init /\ [][NextHash]_vars

-----------------------------------------------------------------------------
(* Claims about save_state / load_state *)

\* an option set as parse_args leaves it, without the name k
FreshOptionsWithout(k) ==
    {[n \in DOMAIN f \ {k} |-> f[n]] :
        f \in {ParsedOptions(oc, PyBool("False")) : oc \in OutputColumnsChoices}}

\* C6 as stated: after save_state with a whitelisted fact set to v, load_state
\* into a fresh option set without that fact yields v, whatever the state file
\* held before.
C6_RoundTripAnyPriorFile ==
    lastOp = "save" =>
        \A k \in Whitelist \cap DOMAIN options : \A o \in FreshOptionsWithout(k) :
            /\ k \in DOMAIN LoadStateOptions(o, stateFile)
            /\ LoadStateOptions(o, stateFile)[k] = options[k]

\* C6 amended: after save_state with a whitelisted fact set to v, load_state
\* into a fresh option set without that fact yields v when the state file did
\* not hold the fact before the save (absent, malformed or without the name),
\* and yields the value the file already held otherwise.
C6_RoundTripFirstWrite ==
    [][lastOp' = "save" =>
        \A k \in Whitelist \cap DOMAIN options' : \A o \in FreshOptionsWithout(k) :
            /\ k \in DOMAIN LoadStateOptions(o, stateFile')
            /\ LoadStateOptions(o, stateFile')[k] =
                 IF k \in DOMAIN ReadState(stateFile)
                    THEN ReadState(stateFile)[k]
                    ELSE options'[k]]_vars

C6_Witness ==
    /\ lastOp = "save"
    /\ opKept = {}
    /\ {"require_sudo", "minion_ip_address"} \subseteq DOMAIN options
    /\ \A k \in {"require_sudo", "minion_ip_address"} : \A o \in FreshOptionsWithout(k) :
          LoadStateOptions(o, stateFile)[k] = options[k]

C8_PersistedReplacesExisting ==
    [][lastOp' = "load" =>
        \A k \in (DOMAIN ReadState(stateFile') \cap DOMAIN options)
                    \ allow_overwrite_variables :
            options'[k] = ReadState(stateFile')[k]]_vars

\* C8 amended: for a persisted name outside the allow-list that is already in
\* the option set, load_state keeps the in-memory value; the persisted value is
\* copied only when the option set does not have the name.
C8_ExistingOptionKept ==
    [][lastOp' = "load" =>
        \A k \in DOMAIN ReadState(stateFile') \ allow_overwrite_variables :
            /\ k \in DOMAIN options'
            /\ options'[k] = IF k \in DOMAIN options
                                THEN options[k]
                                ELSE ReadState(stateFile')[k]]_vars

C8_Witness ==
    /\ lastOp = "load"
    /\ "minion_ip_address" \in opKept
    /\ options["minion_ip_address"] # ReadState(stateFile)["minion_ip_address"]

\* C9 as stated: after save_state the file holds every whitelisted name of the
\* option set with the option's current value, whatever it held before.
C9_FileRewrittenFromOptions ==
    lastOp = "save" =>
        /\ stateFile.kind = "json"
        /\ \A k \in Whitelist \cap DOMAIN options :
              /\ k \in DOMAIN stateFile.obj
              /\ stateFile.obj[k] = JsonDumps(options[k])

\* C9 amended: after save_state the file is a JSON object holding the names it
\* held before (when it was well-formed) and every whitelisted name of the
\* option set: a name the file already held keeps the stored value, a name it
\* did not hold gets the option's current value.
C9_FileMergedFirstWriteWins ==
    [][lastOp' = "save" =>
        /\ stateFile'.kind = "json"
        /\ DOMAIN stateFile'.obj =
              DOMAIN ReadState(stateFile) \cup (Whitelist \cap DOMAIN options')
        /\ \A k \in DOMAIN stateFile'.obj :
              stateFile'.obj[k] =
                 IF k \in DOMAIN ReadState(stateFile)
                    THEN JsonDumps(ReadState(stateFile)[k])
                    ELSE JsonDumps(options'[k])]_vars

C9_Witness ==
    /\ lastOp = "save"
    /\ "minion_ip_address" \in opKept
    /\ "require_sudo" \in DOMAIN stateFile.obj
    /\ stateFile.obj["minion_ip_address"] # JsonDumps(options["minion_ip_address"])

\* C10: every name in the state file is one of the seven whitelisted names,
\* and a name enters the file only in a save_state call whose option set holds
\* it; no other option ever appears in the file.
C10_OnlyWhitelistedSavedOptions ==
    /\ [](DOMAIN stateFile.obj \subseteq Whitelist)
    /\ [][\A k \in DOMAIN stateFile'.obj \ DOMAIN stateFile.obj :
            lastOp' = "save" /\ k \in DOMAIN options']_vars

C10_Witness ==
    /\ lastOp = "save"
    /\ DOMAIN stateFile.obj = Whitelist
    /\ Transient \subseteq DOMAIN options

-----------------------------------------------------------------------------
(* Claims about _repeat *)

NoHit == \A j \in 1..Len(hits) : ~hits[j]

\* C1: when _repeat returns and no probe output contained key, the probe
\* command was run exactly tries times and the result is 1; and _repeat never
\* runs the probe more than tries times.
C1_ExhaustedRunsExactlyTries ==
    /\ runs <= tries
    /\ (rpc = "done" /\ NoHit) => (runs = tries /\ ret = 1)
    /\ (rpc = "done" /\ ret = 1) => (runs = tries /\ NoHit)

C1_Witness == rpc = "done" /\ NoHit /\ tries = MaxTries /\ runs = MaxTries /\ ret = 1

\* C2: when the probe output first contains key on attempt k <= tries, _repeat
\* returns 0 after exactly k probe runs and k-1 sleeps of `sleep` seconds: no
\* sleep follows the successful probe.
C2_SuccessAfterKRuns ==
    \A k \in 1..tries :
        (Len(hits) >= k /\ hits[k] /\ \A j \in 1..(k - 1) : ~hits[j]) =>
            /\ rpc = "done"
            /\ ret = 0
            /\ runs = k
            /\ sleeps = k - 1
            /\ slept = (k - 1) * sleep

C2_Witness ==
    /\ rpc = "done" /\ ret = 0 /\ runs = 2 /\ hits = <<FALSE, TRUE>> /\ sleeps = 1

-----------------------------------------------------------------------------
(* Claims about check_win_minion_connected and get_minion_ip_address *)

\* C3 as stated: each of the three polling loops of
\* check_win_minion_connected runs its probe command at most 24 times in one
\* call, for every sequence of probe results.
C3_AtMost24Probes ==
    wpc \in {"pingA", "pingB", "grains"} => probes <= 24

\* C4 as stated: whenever a polling loop of check_win_minion_connected uses up
\* all its attempts without observing its success condition, the process has
\* exited with a non-zero status and the function does not go on or return.
C4_TimeoutsFatal ==
    exhausted # {} => wpc = "exited" /\ wexit # 0

\* C5 as stated: in get_minion_ip_address and in the three loops of
\* check_win_minion_connected a probe whose output is empty or fails to parse
\* is retried on every attempt but the last, and on the last attempt it ends
\* the process with a non-zero status.
C5_ParseFailureRetriedThenFatal ==
    /\ ipLast.kind \in {"empty", "unparsable"} =>
          IF ipLast.attempt < IpAttemptLimit
             THEN ipc = "loop" /\ attempts = ipLast.attempt + 1
             ELSE ipc = "exited" /\ ipExit # 0
    /\ wlast.kind \in {"empty", "unparsable"} =>
          IF WinLoopCond(wlast.attempt)
             THEN wpc \in {"pingA", "pingB", "grains"} /\ retries = wlast.attempt
             ELSE wpc = "exited" /\ wexit # 0

-----------------------------------------------------------------------------
(* Claims about a malformed state file *)

\* C11: when the state file holds malformed JSON, load_state does not raise
\* and leaves the option set exactly as with the file absent (no option added
\* or changed); save_state does not raise either and writes the state it
\* writes when the file is absent.
C11_MalformedAsAbsent ==
    [][opRead' = "garbage" =>
        /\ lastOp' \in {"load", "save"}
        /\ lastOp' = "load" =>
              /\ options' = options
              /\ options' = LoadStateOptions(options, AbsentFile)
        /\ lastOp' = "save" =>
              /\ stateFile'.kind = "json"
              /\ stateFile' = SaveStateFile(options, AbsentFile)
              /\ DOMAIN stateFile'.obj = Whitelist \cap DOMAIN options]_vars

\* load_state has run on a malformed file with discovered facts in memory
C11_Witness ==
    /\ lastOp = "load"
    /\ opRead = "garbage"
    /\ stateFile.kind = "garbage"
    /\ "minion_ip_address" \in DOMAIN options

\* save_state has run on a malformed file and left a JSON object
C11_SaveWitness ==
    /\ lastOp = "save"
    /\ opRead = "garbage"
    /\ stateFile.kind = "json"
    /\ "minion_ip_address" \in DOMAIN stateFile.obj

-----------------------------------------------------------------------------
(* Claims about run_command *)

\* C12 as stated: whether the command exits 0, exits non-zero or a
\* vt.TerminalException is raised at spawn or while polling, when run_command
\* has finished the child's handle has been closed exactly once and the close
\* step has raised nothing.
C12_ClosedExactlyOnce ==
    cpc \in {"returned", "raised"} => closes = 1 /\ rcExc = "none"

\* C13 as stated: when vt.TerminalException is raised at any point of
\* run_command, starting the command included, run_command returns None and no
\* exception leaves it.
C13_TransportErrorSwallowed ==
    terr # "none" => cpc = "returned" /\ rcRet = "None"

-----------------------------------------------------------------------------
(* Claims about bootstrap_parallels_minion *)

\* C15: bootstrap_parallels_minion calls its five steps strictly in the order
\* clone, start, install agent, reload service, accept credentials; a step is
\* called only when every step before it returned 0; as soon as a step returns
\* a non-zero code the bootstrap returns exactly that code and no later step
\* is called.
C15_StepsInOrderAbortOnFailure ==
    /\ [](/\ Len(stepsRun) <= Len(ParallelsSteps)
          /\ \A j \in 1..Len(stepsRun) : stepsRun[j] = ParallelsSteps[j])
    /\ [][/\ stepsRun' # stepsRun =>
                /\ bpc = "loop"
                /\ stepsRun = <<>> \/ exitcode = Ret(0, 0)
          /\ (exitcode' # exitcode /\ ~exitcode'.none /\ exitcode'.code # 0) =>
                bpc' = "returned" /\ bRet' = exitcode'
          /\ bpc = "returned" => stepsRun' = stepsRun /\ bRet' = bRet]_vars

\* start failed with code 2: only clone and start were called and 2 returned
C15_Witness ==
    /\ bpc = "returned"
    /\ stepsRun = <<"vm_cloned", "vm_started">>
    /\ bRet = Ret(2, 0)

-----------------------------------------------------------------------------
(* Claims about main *)

\* the stages started by this invocation
StagesStarted == {stages[j] : j \in 1..Len(stages)}

\* C14 as stated: when run_command returns None for a preparation SLS run or
\* for the test command, the process ends with a non-zero exit status.
C14_NoExitCodeIsFailure ==
    (failed.stage \in {"prep", "test"} /\ failed.none) =>
        ppc = "exited" /\ pExit > 0

\* C16 as stated: a stage of main that yields a non-zero exit code
\* (provisioning, access preparation, a preparation SLS, the test command)
\* aborts the pipeline at once: it is the last stage started and the exit
\* status of the process is its exit code.
C16_NonZeroStageAborts ==
    (failed # NoFailure /\ ~failed.none) =>
        /\ ppc = "exited"
        /\ pExit = failed.code
        /\ stages[Len(stages)] = failed.stage

\* C17 as stated: with artifacts declared, once the test command has
\* completed, with exit code 0 or with a non-zero exit code, artifact
\* collection is started before the process ends.
C17_ArtifactsAfterTest ==
    (flags.artifacts /\ "test" \in StagesStarted /\ ppc \in {"done", "exited"}
        /\ (ppc = "done" \/ (failed.stage = "test" /\ ~failed.none))) =>
        "artifacts" \in StagesStarted

\* C18 as stated: when load_state found the bootstrap fact in the state file
\* of the workspace, this invocation does not run the provisioning command,
\* whatever deployment flag it was given.
C18_ResumedSkipsProvisioning ==
    resumed => "provision" \notin StagesStarted

\* C19 as stated: once provisioning or the connection check has set
\* salt_minion_bootstrapped or minion_ip_address and main has moved on (to the
\* next stage or to its end), the state file holds that fact.
C19_FactsPersistedBeforeAdvancing ==
    (stages # <<>> /\ ppc \notin {"raised"}) =>
        \A k \in {"salt_minion_bootstrapped", "minion_ip_address"} \cap DOMAIN options :
            k \in DOMAIN ReadState(stateFile)

\* a call of get_minion_ip_address in an invocation that follows one in which
\* get_minion_ip_address discovered an address and called save_state
ReusingCall ==
    /\ ipcalls' = ipcalls + 1
    /\ invocations > 1
    /\ ipHist.found # ""

\* the call returns the address of the earlier invocation and runs no command
ReusedWithoutCommand ==
    /\ ipc' = "returned"
    /\ ipRet' = ipHist.found
    /\ ipCmds' = 0

C21_RebootAtMostOnce ==
    /\ wcalls <= 1 => reboots <= 1
    /\ scenario = ScenarioDone =>
          /\ reboots = 1
          /\ wpc \notin {"pingA", "pingB"}
          /\ wlast.loop = "B" =>
                wlast.kind = "False" /\ wlast.attempt = Len(StopSequence)

C21_Witness ==
    /\ scenario = ScenarioDone
    /\ wcalls = 1
    /\ reboots = 1
    /\ wpc = "grains"
    /\ wlast = [loop |-> "B", attempt |-> 3, kind |-> "False", slept |-> 0]
    /\ Rebooted(options)

\* C22 as stated: after an invocation that set salt_minion_rebooted, a call
\* of check_win_minion_connected in a later invocation on the same workspace
\* enters neither ping loop and issues no reboot command
C22_RebootGuardPersisted ==
    wHist => wpc \notin {"pingA", "pingB"} /\ reboots = 0

\* the remote revision and the expected commit differ in their first seven
\* characters
PrefixesDiffer == UpTo7(vargs.remote) # UpTo7(vargs.expected)

\* C23 as stated: check_cloned_reposiory_commit prints the mismatch warning
\* exactly when the first seven characters of the remote revision and of the
\* expected commit differ, and the match message exactly when they are equal
C23_ComparesFirstSevenCharacters ==
    /\ vfn = "check_cloned_reposiory_commit"
    /\ vpc = "returned"
    /\ vprobe.doc = "str"
    => /\ vsaid = <<"is not the desired one">> <=> PrefixesDiffer
       /\ vsaid = <<"Matches!">> <=> ~PrefixesDiffer

\* one of the two functions printed its mismatch warning
MismatchWarned ==
    \E k \in 1..Len(vsaid) :
        vsaid[k] \in {"is not the desired one", "does not contain the desired commit"}

\* C24: in check_cloned_reposiory_commit and
\* check_bootstrapped_minion_version a reported revision or version, matching
\* or not, lets the function return normally, the mismatch being a printed
\* warning; a non-zero exit code of the probe command ends the process with
\* that exit code
C24_MismatchAdvisoryFetchFatal ==
    /\ MismatchWarned => vpc = "returned" /\ vexit = -1
    /\ vpc # "idle" /\ vcmds = 1 /\ ~vprobe.none /\ vprobe.exitcode = 0 /\ vprobe.doc = "str"
          => vpc = "returned" /\ vexit = -1
    /\ vpc # "idle" /\ vcmds = 1 /\ ~vprobe.none /\ vprobe.exitcode # 0
          => vpc = "exited" /\ vexit = vprobe.exitcode

C24_Witness ==
    /\ vfn = "check_bootstrapped_minion_version"
    /\ vpc = "returned"
    /\ vsaid = <<"does not contain the desired commit">>
    /\ vargs = [remote |-> "2016.3.0", expected |-> "1234567"]

C24_FatalWitness ==
    /\ vfn = "check_cloned_reposiory_commit"
    /\ vpc = "exited"
    /\ vprobe.exitcode = 2
    /\ vexit = 2

\* the number of elevation prefixes a command text starts with
RECURSIVE LeadingSudos(_)
LeadingSudos(text) ==
    CASE text = "sudo" -> 1
      [] StartsWith(text, "sudo ") -> 1 + LeadingSudos(SubSeq(text, 6, Len(text)))
      [] OTHER -> 0

\* the command text that was sent, without the profile workaround of
\* parallels
SentBody ==
    IF StartsWith(sSent, "source /etc/profile ; ")
       THEN SubSeq(sSent, Len("source /etc/profile ; ") + 1, Len(sSent))
       ELSE sSent

\* C25 as stated: with require_sudo true the remote command run_ssh_command
\* sends carries exactly one elevation prefix, with require_sudo false it is
\* the command as given
C25_ExactlyOneElevationPrefix ==
    spc = "sent" =>
        IF RequireSudo(options)
           THEN LeadingSudos(SentBody) = 1
           ELSE SentBody = JoinTokens(sGiven)

\* C25, amended: with require_sudo true a command built by run_state_on_vm,
\* or one whose text does not begin with the characters sudo, is sent with
\* exactly one elevation prefix, and a command whose text begins with the
\* characters sudo is sent as it is; with require_sudo false the command is
\* sent as it is
C25_PrefixedUnlessTextStartsWithSudo ==
    spc = "sent" =>
        /\ RequireSudo(options) /\ sVia = "run_state_on_vm" => LeadingSudos(SentBody) = 1
        /\ RequireSudo(options) /\ ~StartsWith(JoinTokens(sGiven), "sudo") =>
                LeadingSudos(SentBody) = 1 /\ SentBody = "sudo " \o JoinTokens(sGiven)
        /\ RequireSudo(options) /\ StartsWith(JoinTokens(sGiven), "sudo") =>
                SentBody = JoinTokens(sGiven)
        /\ ~RequireSudo(options) => SentBody = JoinTokens(sGiven)

C25_Witness ==
    /\ spc = "sent"
    /\ sVia = "run_state_on_vm"
    /\ RequireSudo(options)
    /\ sGiven = <<"sudo", "salt-call", "state.sls">>
    /\ sSent = "sudo salt-call state.sls"

\* C26: the root login probe runs only while require_sudo is no attribute,
\* once, sets require_sudo to whether its exit code is not 0 and leaves the
\* fact in the state file; once the fact is known to the options or the state
\* file no call of this or a later invocation runs the probe
C26_RootLoginProbedOnce ==
    [][/\ sProbes' # sProbes =>
            /\ "require_sudo" \notin DOMAIN options
            /\ sProbes' = sProbes + 1
            /\ sProbe'.ran
            /\ options'["require_sudo"] =
                    PyBool(IF sProbe'.none \/ sProbe'.code # 0 THEN "True" ELSE "False")
            /\ "require_sudo" \in DOMAIN ReadState(stateFile')
            /\ ReadState(stateFile')["require_sudo"] = options'["require_sudo"]
       /\ \/ "require_sudo" \in DOMAIN options
          \/ "require_sudo" \in DOMAIN ReadState(stateFile)
          => sProbes' = sProbes
      ]_vars

C26_Witness ==
    /\ invocations = 2
    /\ spc = "sent"
    /\ sProbes = 1
    /\ ~sProbe.ran
    /\ "require_sudo" \in DOMAIN options
    /\ options["require_sudo"] = PyBool("False")

\* the provisioning output named no address: no line starts with the VM
\* name, or the document after it is blank, unparsable, without public_ips or
\* with a public_ips that holds no address
ExtractionFailed == kpc # "idle" /\ ~kIn.none /\ CleanDoc(kIn) \in NoAddressDocs

\* C27 as stated: when no address can be extracted bootstrap_cloud_minion
\* still returns the exit code of salt-cloud, sets salt_minion_bootstrapped
\* when the code is 0 and leaves minion_ip_address unset
C27_ExtractionFailureLeavesAddressUnset ==
    ExtractionFailed =>
        /\ kpc = "returned"
        /\ kRet = kIn.exitcode
        /\ kIn.exitcode = 0 <=> "salt_minion_bootstrapped" \in DOMAIN options
        /\ "minion_ip_address" \notin DOMAIN options

\* C27, amended: when no address can be extracted bootstrap_cloud_minion
\* still returns the exit code of salt-cloud and sets salt_minion_bootstrapped
\* when the code is 0; minion_ip_address is left unset, except that a
\* public_ips that is the empty string is stored as the empty address, which
\* get_minion_ip_address does not return from its cache
C27_ExtractionFailureKeepsOutcome ==
    ExtractionFailed =>
        /\ kpc = "returned"
        /\ kRet = kIn.exitcode
        /\ kIn.exitcode = 0 <=> "salt_minion_bootstrapped" \in DOMAIN options
        /\ IF kIn.exitcode = 0 /\ CleanDoc(kIn) = "empty string"
              THEN options["minion_ip_address"] = PyText("")
              ELSE "minion_ip_address" \notin DOMAIN options
        /\ ~IpCached(options)

C27_Witness ==
    /\ kpc = "returned"
    /\ kIn.exitcode = 0
    /\ kIn.vmLine
    /\ kIn.doc = "empty list"
    /\ kCaught
    /\ kRet = 0
    /\ "salt_minion_bootstrapped" \in DOMAIN options
    /\ "minion_ip_address" \notin DOMAIN options

\* the position of an entry in the log of vm_cloned, 0 when it is not there
LogIndex(entry) ==
    IF \E k \in 1..Len(gLog) : gLog[k] = entry
       THEN CHOOSE k \in 1..Len(gLog) : gLog[k] = entry
       ELSE 0

\* C28: when the status of the template contains running, the stop command
\* is issued and the poll finds stopped before the clone command is issued,
\* and a poll for stopped that runs out ends the step with 1 and without a
\* clone command; the step returns 0 only after the existence probe found the
\* clone
C28_StopBeforeCloneExistsBeforeSuccess ==
    /\ SourceRunning(gSource) /\ LogIndex("clone") > 0 =>
            /\ 0 < LogIndex("stop")
            /\ LogIndex("stop") < LogIndex("stopped")
            /\ LogIndex("stopped") < LogIndex("clone")
    /\ gpc = "returned" /\ LogIndex("stop") > 0 /\ LogIndex("stopped") = 0 =>
            gRet = 1 /\ LogIndex("clone") = 0
    /\ gRet = 0 =>
            /\ gpc = "returned"
            /\ gLog[Len(gLog)] = "exists"
            /\ LogIndex("clone") > 0
            /\ Contains("True", gLast)

C28_Witness ==
    /\ gpc = "returned"
    /\ gRet = 0
    /\ gSource = "running"
    /\ gLog = <<"revert_snapshot", "status", "stop", "stopped", "clone", "exists">>

C28_ExhaustedWitness ==
    /\ gpc = "returned"
    /\ gRet = 1
    /\ gTries = DefaultTries
    /\ gLog = <<"revert_snapshot", "status", "stop">>
\* C29: called while salt_minion_bootstrapped is not among the options, each of
\* sync_minion, get_minion_python_executable, get_minion_ip_address,
\* check_win_minion_connected and check_bootstrapped_minion_version ends the
\* process with exit status 1, runs no external command on the way, and leaves
\* the state file as it was
UnbootstrappedCall(A) == A /\ "salt_minion_bootstrapped" \notin DOMAIN options

GuardedCallsExitOne ==
    /\ UnbootstrappedCall(SyncCall \/ PythonCall) =>
            /\ fpc' = "exited" /\ fExit' = 1 /\ fCmds' = 0
            /\ stateFile' = stateFile /\ options' = options
    /\ UnbootstrappedCall(IpCall) =>
            /\ ipc' = "exited" /\ ipExit' = 1 /\ ipCmds' = 0
            /\ stateFile' = stateFile /\ options' = options
    /\ UnbootstrappedCall(WinCall) =>
            /\ wpc' = "exited" /\ wexit' = 1 /\ probes' = 0 /\ reboots' = reboots
            /\ stateFile' = stateFile /\ options' = options
    /\ UnbootstrappedCall(VersionCall) =>
            /\ vpc' = "exited" /\ vexit' = 1 /\ vcmds' = 0
            /\ stateFile' = stateFile /\ options' = options

C29_MissingBootstrapFactExitsOne == [][GuardedCallsExitOne]_vars

\* all five functions have been called without the fact and left exit status 1
C29_Witness ==
    /\ "salt_minion_bootstrapped" \notin DOMAIN options
    /\ fpc = "exited" /\ fName = "get_minion_python_executable" /\ fExit = 1
    /\ ipc = "exited" /\ ipExit = 1 /\ ipCmds = 0
    /\ wpc = "exited" /\ wexit = 1 /\ probes = 0
    /\ vpc = "exited" /\ vexit = 1 /\ vcmds = 0

\* sync_minion called without the fact
C29_SyncWitness ==
    /\ "salt_minion_bootstrapped" \notin DOMAIN options
    /\ fpc = "exited" /\ fName = "sync_minion" /\ fExit = 1 /\ fCmds = 0
\* the password occurs in the text
Shows(password, text) == password # "" /\ Contains(password, text)

C31_DeleteZeroOnlyIfAllZero ==
    dpc = "exited" =>
        /\ dRet = 0 => \A n \in 1..3 : dCodes[n] = Code(0)
        /\ (\E n \in 1..3 : ~dCodes[n].none /\ dCodes[n].code # 0) => dRet = 1
\* C32: find_private_addr returns an RFC 1918 address of the list whenever
\* the list holds one, at whatever position, and an empty result only when
\* the list holds none
C32_FindsPrivateAtAnyPosition ==
    qpc = "returned" =>
        IF \E n \in 1..Len(qList) : IsPrivate(qList[n])
           THEN \E n \in 1..Len(qList) : IsPrivate(qList[n]) /\ qRet = AddrText(qList[n])
           ELSE qRet = ""
\* C33: an invocation with --show-default-command prints the default test
\* command and exits with status 0 without provisioning or running a stage,
\* also in a workspace whose state file records a bootstrapped minion
C33_ShowDefaultCommandExitsZero ==
    (ppc = "exited" /\ shown # "no") =>
        /\ shown = "printed" /\ pExit = 0
        /\ stages = <<>>
\* the invocation ran in a workspace whose state file records a bootstrapped
\* minion and ended with status 1 before the command was printed
C33_ResumedWorkspaceExitsOne ==
    ~(ppc = "exited" /\ shown = "asked" /\ pExit = 1 /\ RecordsBootstrap(stateFile))
\* an invocation with --echo-parseable-output has ended
EchoExited == ppc = "exited" /\ options["echo_parseable_output"] = PyBool("True")

\* the file is a JSON object that holds nothing but values of this
\* invocation's options
HoldsOwnOptionsOnly ==
    /\ stateFile.kind = "json"
    /\ \A k \in DOMAIN stateFile.obj :
          k \in DOMAIN options /\ stateFile.obj[k] = JsonDumps(options[k])

C34_UsageErrorWitness == EchoExited /\ wiped /\ pExit = ParserErrorStatus
\* C35: when bootstrap_cloud_minion or bootstrap_parallels_minion returns,
\* salt_minion_bootstrapped has been set by the call if and only if the value
\* returned is 0, for parallels after all five steps were run; a bootstrap
\* that returns anything else leaves the option set as it was
Bootstrapped(opts) == "salt_minion_bootstrapped" \in DOMAIN opts

BootstrapFactOnReturn ==
    /\ (kpc = "idle" /\ kpc' = "returned") =>
            IF kRet' = 0 THEN Bootstrapped(options') ELSE options' = options
    /\ (bpc = "loop" /\ bpc' = "returned") =>
            IF ~NotZero(bRet')
               THEN Bootstrapped(options') /\ stepsRun' = ParallelsSteps
               ELSE options' = options

C35_BootstrappedFactIffZero == [][BootstrapFactOnReturn]_vars

\* salt-cloud failed and left the fact unset, then the five parallels steps
\* returned 0 and the fact is set
C35_Witness ==
    /\ kpc = "returned" /\ kRet # 0
    /\ bpc = "returned" /\ ~NotZero(bRet) /\ stepsRun = ParallelsSteps
    /\ Bootstrapped(options)

\* both bootstraps returned a failure and the fact is not set
C35_FailedWitness ==
    /\ kpc = "returned" /\ kRet # 0
    /\ bpc = "returned" /\ NotZero(bRet)
    /\ ~Bootstrapped(options)
\* C36: in bootstrap_salt the installer is run only after a probe whose freshly
\* computed checksum matches the expected checksum read from the checksum
\* file; when no probe matches within the poll bound, or the expected checksum
\* could not be obtained (the read came back empty), the installer is never
\* run and the step returns non-zero
ChecksumObtained == hpc # "idle" /\ hash_code # <<>>

C36_InstallerOnlyAfterMatchingChecksum ==
    /\ (hpc = "install" \/ hInstalled) =>
            ChecksumObtained /\ ChecksumFound(hash_code, hLast)
    /\ (hpc = "returned" /\ ~hInstalled) => hRet \notin {0, -1}
\* C37: in check_win_minion_connected the second loop (pinging until the
\* minion stops answering) is entered only after, in the same call, a ping
\* returned true and the reboot command was issued and answered with true
C37_PhaseBOnlyAfterAcknowledgedReboot ==
    wpc = "pingB" => reboots > 0 /\ Rebooted(options)

\* the second loop was entered although no reboot command was issued
C37_PhaseBWithoutReboot == ~(wpc = "pingB" /\ reboots = 0)
\* C38: the state file is first-write-wins.  In every step of the program a
\* name the state file holds keeps its value, also in a save_state call made
\* while the option of that name holds a different value; the one step that
\* removes names is load_state's unlink in an invocation with
\* --echo-parseable-output.  (lastOp = "corrupt" marks a change of the file
\* made from outside the program.)
EchoUnlinkStep ==
    /\ mpc = "parsed" /\ mpc' = "running"
    /\ options["echo_parseable_output"] = PyBool("True")
    /\ stateFile' = AbsentFile

StoredValuesKept ==
    \A k \in DOMAIN ReadState(stateFile) :
        /\ k \in DOMAIN ReadState(stateFile')
        /\ ReadState(stateFile')[k] = ReadState(stateFile)[k]

C38_StateFileFirstWriteWins ==
    [][lastOp' # "corrupt" => (StoredValuesKept \/ EchoUnlinkStep)]_vars

\* save_state ran while the file held the address 'No response' and the
\* option held a re-fetched one, and the file still holds 'No response'
C38_Witness ==
    /\ lastOp = "save"
    /\ "minion_ip_address" \in DOMAIN options
    /\ options["minion_ip_address"] = PyText("10.0.0.5")
    /\ "minion_ip_address" \in DOMAIN ReadState(stateFile)
    /\ ReadState(stateFile)["minion_ip_address"] = PyText("No response")

\* an invocation with --echo-parseable-output unlinked a file that held facts
C38_UnlinkWitness ==
    /\ wiped /\ stateFile = AbsentFile /\ mpc = "running"

\* C39: the agent-synced fact is recorded only after a successful sync.  When
\* a call of sync_minion that ran the saltutil.sync_all command has returned,
\* salt_minion_synced is set in the options and in the state file only if
\* the command exited 0; and a call made while the fact is set runs no
\* command.
SyncRan == fpc = "returned" /\ fName = "sync_minion" /\ fCmds = 1

C39_SyncedOnlyAfterSuccessfulSync ==
    /\ SyncRan /\ fRet # "0" =>
          /\ "salt_minion_synced" \notin DOMAIN options
          /\ "salt_minion_synced" \notin DOMAIN ReadState(stateFile)
    /\ fpc = "returned" /\ fName = "sync_minion" /\ fRet = "None" => fCmds = 0

\* the sync command exited 1 and the fact is set and persisted
C39_FailedSyncRecorded ==
    ~(/\ SyncRan /\ fRet = "1"
      /\ "salt_minion_synced" \in DOMAIN options
      /\ "salt_minion_synced" \in DOMAIN ReadState(stateFile))

-----------------------------------------------------------------------------
(* Claims about the polling loop of run_command *)

\* the in-order concatenation of a sequence of chunks
RECURSIVE Joined(_)
Joined(chunks) ==
    IF chunks = <<>> THEN <<>> ELSE Head(chunks) \o Joined(Tail(chunks))

\* what holds of a call that has returned: the child has exited, some poll
\* found it exited with nothing on either stream, the result is the child's
\* exit status, and with return_output the texts returned are the chunks
\* received on each stream joined in the order received
ReturnedAfterQuietPoll ==
    /\ ~alive /\ quiet
    /\ rcRet = (IF return_output THEN "tuple" ELSE "exitstatus")
    /\ exitstatus \in ExitStatuses /\ rcStatus = exitstatus
    /\ return_output =>
          /\ stdout_buffer = Joined(received.stdout)
          /\ stderr_buffer = Joined(received.stderr)

\* once the child has exited, and its output being finite, the call returns
ReturnsOnceChildExited == (cpc = "poll" /\ ~alive) ~> (cpc = "returned")

\* C40 as stated: run_command keeps polling until the child process has
\* exited and a poll has returned no pending output on either stream; it
\* returns only then, its result is the child's exit status, and with
\* return_output the returned stdout and stderr are the in-order concatenation
\* of every chunk received on each stream.  If the child eventually exits and
\* produces finite output, run_command eventually returns.
C40_ReturnsOnlyAfterExitAndQuietPoll ==
    /\ [](cpc = "returned" => ReturnedAfterQuietPoll)
    /\ ReturnsOnceChildExited

\* C40, amended: the same of every call in which proc.recv raised no
\* vt.TerminalException; a call in which it did returns None at once, whether
\* or not the child has exited.
C40_ReturnsAfterExitAndQuietPollOrOnError ==
    /\ [](cpc = "returned" /\ terr = "none" => ReturnedAfterQuietPoll)
    /\ [](cpc = "returned" /\ terr # "none" => terr = "recv" /\ rcRet = "None")
    /\ ReturnsOnceChildExited

\* a call with return_output returned status 1 after two chunks of stdout and
\* one of stderr
C40_Witness ==
    /\ cpc = "returned" /\ terr = "none" /\ return_output /\ rcStatus = 1
    /\ received.stdout = <<(<<"a">>), (<<"b", "c">>)>>
    /\ stdout_buffer = <<"a", "b", "c">>
    /\ Len(received.stderr) = 1

\* proc.recv raised while the child was running, and the call returned None
C40_ErrorWitness ==
    /\ cpc = "returned" /\ terr = "recv" /\ alive /\ ~quiet /\ rcRet = "None"

=============================================================================
